---- MODULE Spec2Model ----
(***************************************************************************)
(* Anomaly-detection core of the stock dashboard backend                   *)
(* (backend-python/app): reason classifier, market derivation, adaptive    *)
(* contamination, the model store (ModelManager) and the two detection     *)
(* operations with their result sink (db.anomalies, db.detection_runs,     *)
(* db.detection_metadata).                                                 *)
(*                                                                         *)
(* Conventions                                                             *)
(*   - a float that may be NaN is a record [nan |-> BOOLEAN, v |-> Int];   *)
(*   - contamination is held in hundredths (0.05 is 5, 0.10 is 10);        *)
(*   - returns are exact rationals held in units of 1/ReturnScale;         *)
(*   - a symbol is a sequence of characters.                               *)
(***************************************************************************)
EXTENDS Integers, Sequences, FiniteSets, TLC

VARIABLES
    call,       \* pure-function harness: the function applied and its input
    ret,        \* pure-function harness: [done, val] of that application
    paths,      \* model_manager.MODEL_PATHS: market -> configured?
    files,      \* the model file at each market's configured path
    models_dir, \* the versioned model files of each market beside that path
    cache,      \* ModelManager._cache: market -> loaded model
    versions,   \* ModelManager._versions: market -> 16-character version id
    hashes,     \* ModelManager._hashes: market -> full sha256 hex digest
    mmret,      \* the last ModelManager call and what it returned
    featuresOK, \* MODEL_FEATURES names only columns data_preprocessing produces
    bars,       \* provider: ticker -> number of bars it serves (timestamps 1..n)
    outliers,   \* ticker -> timestamps of the bars the models label -1
    anomalies,  \* db.anomalies, in insertion order
    runs,       \* db.detection_runs, in insertion order (_id = position)
    meta,       \* db.detection_metadata: ticker -> document
    last,       \* the last detection call: its input, outcome and return value
    calls,      \* number of detection calls made
    threads,    \* concurrent adaptive runs: thread -> its position in the run
    starting,   \* concurrent incremental runs: thread -> its position and locals
    loader,     \* load_dataset: its position in the ticker list and what it gathered
    job         \* job_for_market: its position in the batches of tickers

pureVars == <<call, ret>>
storeVars == <<paths, files, models_dir, cache, versions, hashes, mmret>>
dbVars == <<anomalies, runs, meta>>
detectVars == <<featuresOK, bars, outliers, anomalies, runs, meta, last, calls>>
raceVars == <<threads, starting>>
batchVars == <<loader, job>>
vars == <<pureVars, storeVars, detectVars, raceVars, batchVars>>

(***************************************************************************)
(* Bounds                                                                  *)
(***************************************************************************)
MaxAbsZ == 3        \* Close_Z ranges over -MaxAbsZ..MaxAbsZ and NaN
MaxSymLen == 3      \* longest symbol string
MaxCloses == 4      \* longest Close column handed to get_adaptive_contamination
MaxContents == 2    \* distinct model file contents
MaxBars == 21       \* most bars the provider serves for a symbol
MaxCalls == 3       \* detection calls in one behaviour
MaxScored == 2      \* rows of a scored table handed to the post-filters
MaxList == 2        \* tickers in one load_dataset call
MaxTickers == 12    \* tickers job_for_market monitors for one market
MaxSeries == 15     \* bars of a series handed to data_preprocessing
MaxMissing == 2     \* bars of a series with a missing OHLCV value
MaxCandles == 3     \* bars of a series handed to the wick ratio
MaxCross == 4       \* bars of a series handed to the crossover flags
MaxSarBars == 4     \* bars of a series handed to _calculate_parabolic_sar
MaxVersion == 3      \* highest minor version of a model file
MaxStarts == 2       \* concurrent incremental calls started
MaxSymbolRows == 2   \* bars of one symbol in a table of several
MaxFlagRows == 2    \* rows of a table handed to compute_rule_flags (fewer than 20)
NumThreads == 2     \* request threads running a detection at the same time

Abs(x) == IF x < 0 THEN -x ELSE x

NaN == [nan |-> TRUE, v |-> 0]
Num(x) == [nan |-> FALSE, v |-> x]

RECURSIVE SumSeq(_)
SumSeq(s) == IF s = <<>> THEN 0 ELSE Head(s) + SumSeq(Tail(s))

(***************************************************************************)
(* Reason classifier: train_service.identify_reason                        *)
(***************************************************************************)
FlagNames == {"is_flash_crash", "is_vol_anomaly", "is_price_anomaly",
              "MACD_Cross_Up", "MACD_Cross_Down", "EMA_Cross_Up",
              "EMA_Cross_Down", "is_absorption", "is_vei_anomaly",
              "is_price_volume_warning"}

KeyError == "KeyError"

\* The `if` statements of identify_reason in source order: the columns each
\* one reads (left operand of `and` first) and the label it returns.
ReasonRulesSwapped ==
    << [keys |-> <<"MACD_Cross_Up">>,                      label |-> "MACD Bull Cross"],
       [keys |-> <<"is_flash_crash">>,                     label |-> "Flash Crash"],
       [keys |-> <<"is_vol_anomaly", "is_price_anomaly">>, label |-> "Vol+Price Spike"],
       [keys |-> <<"MACD_Cross_Up", "EMA_Cross_Up">>,      label |-> "Double Bull Cross"],
       [keys |-> <<"MACD_Cross_Down", "EMA_Cross_Down">>,  label |-> "Double Bear Cross"],
       [keys |-> <<"MACD_Cross_Down">>,                    label |-> "MACD Bear Cross"],
       [keys |-> <<"is_absorption">>,                      label |-> "Absorption"],
       [keys |-> <<"is_vol_anomaly">>,                     label |-> "High Vol"],
       [keys |-> <<"is_price_anomaly">>,                   label |-> "Price Shock"],
       [keys |-> <<"is_vei_anomaly">>,                     label |-> "VEI Break"],
       [keys |-> <<"is_price_volume_warning">>,            label |-> "P+V Warning"] >>

ReasonRules ==
    << [keys |-> <<"is_flash_crash">>,                     label |-> "Flash Crash"],
       [keys |-> <<"is_vol_anomaly", "is_price_anomaly">>, label |-> "Vol+Price Spike"],
       [keys |-> <<"MACD_Cross_Up", "EMA_Cross_Up">>,      label |-> "Double Bull Cross"],
       [keys |-> <<"MACD_Cross_Down", "EMA_Cross_Down">>,  label |-> "Double Bear Cross"],
       [keys |-> <<"MACD_Cross_Up">>,                      label |-> "MACD Bull Cross"],
       [keys |-> <<"MACD_Cross_Down">>,                    label |-> "MACD Bear Cross"],
       [keys |-> <<"is_absorption">>,                      label |-> "Absorption"],
       [keys |-> <<"is_vol_anomaly">>,                     label |-> "High Vol"],
       [keys |-> <<"is_price_anomaly">>,                   label |-> "Price Shock"],
       [keys |-> <<"is_vei_anomaly">>,                     label |-> "VEI Break"],
       [keys |-> <<"is_price_volume_warning">>,            label |-> "P+V Warning"] >>

\* Python's `a and b` on row lookups: "KeyError" when a column that is read
\* is absent, otherwise the truth of the conjunction; b is read only when a
\* is true.
RECURSIVE EvalAnd(_, _)
EvalAnd(flags, keys) ==
    IF keys = <<>> THEN "true"
    ELSE IF Head(keys) \notin DOMAIN flags THEN KeyError
    ELSE IF flags[Head(keys)] THEN EvalAnd(flags, Tail(keys))
    ELSE "false"

RECURSIVE FirstMatch(_, _)
FirstMatch(row, rules) ==
    IF rules = <<>>
    THEN IF "Close_Z" \notin DOMAIN row THEN KeyError
         ELSE IF ~row.Close_Z.nan /\ Abs(row.Close_Z.v) > 2 THEN "Price Z-Score"
         ELSE "Normal"
    ELSE LET e == EvalAnd(row.flags, Head(rules).keys)
         IN  IF e = KeyError THEN KeyError
             ELSE IF e = "true" THEN Head(rules).label
             ELSE FirstMatch(row, Tail(rules))

identify_reason(row) == FirstMatch(row, ReasonRules)

ZValues == {NaN} \cup {Num(z) : z \in -MaxAbsZ..MaxAbsZ}
Rows == {[flags |-> f, Close_Z |-> z] : f \in [FlagNames -> BOOLEAN], z \in ZValues}

(***************************************************************************)
(* Market derivation                                                       *)
(***************************************************************************)
Chars == {"A", ".", "T", "t", "B", "K", "k"}

UpperChar(c) == CASE c = "t" -> "T"
                  [] c = "b" -> "B"
                  [] c = "k" -> "K"
                  [] OTHER -> c

Upper(s) == [i \in 1..Len(s) |-> UpperChar(s[i])]

EndsWith(s, suffix) ==
    /\ Len(s) >= Len(suffix)
    /\ SubSeq(s, Len(s) - Len(suffix) + 1, Len(s)) = suffix

DotT == <<".", "T">>
DotBK == <<".", "B", "K">>

\* detect_anomalies_incremental, step 1
incremental_market(ticker) ==
    IF EndsWith(ticker, DotT) THEN "JP"
    ELSE IF EndsWith(ticker, DotBK) THEN "TH" ELSE "US"

\* scheduler.get_market_for_ticker
get_market_for_ticker(ticker) ==
    IF EndsWith(ticker, DotT) THEN "JP"
    ELSE IF EndsWith(ticker, DotBK) THEN "TH"
    ELSE "US"

\* api/chart._derive_market_from_ticker
derive_market_from_ticker(t) ==
    LET s == Upper(t)
    IN  IF EndsWith(s, DotT) THEN "JP"
        ELSE IF EndsWith(s, DotBK) THEN "TH"
        ELSE "US"

RECURSIVE SeqsUpTo(_)
SeqsUpTo(n) ==
    IF n = 0 THEN {<<>>}
    ELSE LET shorter == SeqsUpTo(n - 1)
         IN  shorter \cup {Append(s, c) : s \in shorter, c \in Chars}

SymbolStrings == SeqsUpTo(MaxSymLen) \cup {<<"A", ".", "B", "K">>, <<"A", ".", "b", "k">>}

(***************************************************************************)
(* Adaptive contamination: train_service.get_adaptive_contamination        *)
(***************************************************************************)
ClosePrices == {0, 20, 24, 25}
ReturnScale == 24 * 25      \* a common multiple of 100 and the non-zero ClosePrices

HighContamination == 10     \* 0.10
LowContamination == 5       \* 0.05
NormalContamination == 5    \* 0.05
DefaultContamination == 5   \* 0.05

\* df['Close'].pct_change(): one entry per row after the first, as
\* [kind, v]: "num" with v in units of 1/ReturnScale, "nan" for 0/0, "inf"
\* for x/0 with x # 0.  (The first row's NaN is left out: std skips NaN.)
pct_change(c) ==
    [i \in 1..(Len(c) - 1) |->
        IF c[i] = 0
        THEN IF c[i + 1] = 0 THEN [kind |-> "nan", v |-> 0] ELSE [kind |-> "inf", v |-> 0]
        ELSE [kind |-> "num", v |-> (c[i + 1] - c[i]) * (ReturnScale \div c[i])]]

\* Series.std() (ddof = 1, NaN skipped) kept as the exact variance
\* num / den in units of 1/ReturnScale^2; NaN with fewer than two valid
\* values or with an infinite value among them.
std_var(returns) ==
    LET valid == SelectSeq(returns, LAMBDA r : r.kind # "nan")
        n == Len(valid)
        vals == [i \in 1..n |-> valid[i].v]
        sq == [i \in 1..n |-> valid[i].v * valid[i].v]
    IN  IF n < 2 \/ \E i \in 1..n : valid[i].kind = "inf"
        THEN [nan |-> TRUE, num |-> 0, den |-> 1]
        ELSE [nan |-> FALSE,
              num |-> n * SumSeq(sq) - SumSeq(vals) * SumSeq(vals),
              den |-> n * (n - 1)]

\* pct percent as a return in units of 1/ReturnScale (ReturnScale is a
\* multiple of 100)
Percent(pct) == (pct * ReturnScale) \div 100

vol_ge(vol, pct) ==
    ~vol.nan /\ vol.num >= Percent(pct) * Percent(pct) * vol.den

\* volatility > pct/100; a comparison with NaN is False
vol_gt(vol, pct) ==
    ~vol.nan /\ vol.num > Percent(pct) * Percent(pct) * vol.den

\* volatility < pct/100
vol_lt(vol, pct) ==
    ~vol.nan /\ vol.num < Percent(pct) * Percent(pct) * vol.den

get_adaptive_contamination(df) ==
    IF Len(df.Close) = 0 \/ ~df.hasClose
    THEN DefaultContamination
    ELSE LET volatility == std_var(pct_change(df.Close))
         IN  IF vol_gt(volatility, 20) THEN HighContamination
             ELSE IF vol_lt(volatility, 10) THEN LowContamination
             ELSE NormalContamination

RECURSIVE CloseSeqs(_)
CloseSeqs(n) ==
    IF n = 0 THEN {<<>>}
    ELSE LET shorter == CloseSeqs(n - 1)
         IN  shorter \cup {Append(s, c) : s \in shorter, c \in ClosePrices}

\* A table without a Close column keeps its row count in Close's length.
Tables == {[hasClose |-> h, Close |-> c] : h \in BOOLEAN, c \in CloseSeqs(MaxCloses)}

(***************************************************************************)
(* Model store: core/model_manager.ModelManager                            *)
(***************************************************************************)
Markets == {"US", "JP", "TH"}
MarketArgs == Markets \cup {"us", "XX"}

\* str.upper on the market codes callers pass
UpperMarket(m) == IF m = "us" THEN "US" ELSE m

HashLen == 64       \* sha256 hexdigest length
VersionLen == 16    \* file_hash[:16]

\* hashlib.sha256(bytes).hexdigest() as a sequence of HashLen hex digits
\* (0..15), different for different contents from the first digit on.
Sha256(content) == [i \in 1..HashLen |-> (content * i + content) % 16]

Contents == 1..MaxContents
NoFile == [exists |-> FALSE, content |-> 0, loadable |-> FALSE]
\* a file joblib cannot load: its bytes are never hashed
Damaged == [exists |-> TRUE, content |-> 0, loadable |-> FALSE]
FileStates == {NoFile, Damaged} \cup
              {[exists |-> TRUE, content |-> c, loadable |-> TRUE] : c \in Contents}

EmptyDict == [m \in {} |-> 0]
DictSet(dict, k, v) == [m \in DOMAIN dict \cup {k} |-> IF m = k THEN v ELSE dict[m]]

\* ModelManager.get_model: the state after the call and the value returned.
\* A model object is identified with the file content it was loaded from.
GetModelCachingFailure(market) ==
    LET m == UpperMarket(market)
        same == [cache |-> cache, versions |-> versions, hashes |-> hashes]
    IN  IF m \in DOMAIN cache
        THEN same @@ [val |-> cache[m], how |-> "hit"]
        ELSE IF m \notin Markets \/ ~paths[m]
        THEN same @@ [val |-> 0, how |-> "failed"]
        ELSE IF ~files[m].exists
        THEN same @@ [val |-> 0, how |-> "failed"]
        ELSE IF ~files[m].loadable
        THEN [cache |-> cache,
              hashes |-> DictSet(hashes, m, Sha256(files[m].content)),
              versions |-> DictSet(versions, m, SubSeq(Sha256(files[m].content), 1, VersionLen)),
              val |-> 0, how |-> "failed"]
        ELSE [cache |-> DictSet(cache, m, files[m].content),
              hashes |-> DictSet(hashes, m, Sha256(files[m].content)),
              versions |-> DictSet(versions, m, SubSeq(Sha256(files[m].content), 1, VersionLen)),
              val |-> files[m].content, how |-> "loaded"]

GetModel(market) ==
    LET m == UpperMarket(market)
        same == [cache |-> cache, versions |-> versions, hashes |-> hashes]
    IN  IF m \in DOMAIN cache
        THEN same @@ [val |-> cache[m], how |-> "hit"]
        ELSE IF m \notin Markets \/ ~paths[m]
        THEN same @@ [val |-> 0, how |-> "failed"]       \* no path configured
        ELSE IF ~files[m].exists
        THEN same @@ [val |-> 0, how |-> "failed"]       \* file not found
        ELSE IF ~files[m].loadable
        THEN same @@ [val |-> 0, how |-> "failed"]       \* jo.load raised
        ELSE [cache |-> DictSet(cache, m, files[m].content),
              hashes |-> DictSet(hashes, m, Sha256(files[m].content)),
              versions |-> DictSet(versions, m, SubSeq(Sha256(files[m].content), 1, VersionLen)),
              val |-> files[m].content, how |-> "loaded"]

Unknown == <<>>     \* the "unknown" / "" returned when nothing is cached

get_model(market) ==
    LET r == GetModel(market)
    IN  /\ cache' = r.cache /\ versions' = r.versions /\ hashes' = r.hashes
        /\ mmret' = [fn |-> "get_model", market |-> market, how |-> r.how,
                     model |-> r.val, text |-> Unknown]
        /\ UNCHANGED <<paths, files, models_dir>>

get_version(market) ==
    LET m == UpperMarket(market)
        r == IF m \notin DOMAIN versions THEN GetModel(market)
             ELSE [cache |-> cache, versions |-> versions, hashes |-> hashes,
                   val |-> 0, how |-> "none"]
    IN  /\ cache' = r.cache /\ versions' = r.versions /\ hashes' = r.hashes
        /\ mmret' = [fn |-> "get_version", market |-> market, how |-> r.how, model |-> 0,
                     text |-> IF m \in DOMAIN r.versions THEN r.versions[m] ELSE Unknown]
        /\ UNCHANGED <<paths, files, models_dir>>

get_full_hash(market) ==
    LET m == UpperMarket(market)
        r == IF m \notin DOMAIN hashes THEN GetModel(market)
             ELSE [cache |-> cache, versions |-> versions, hashes |-> hashes,
                   val |-> 0, how |-> "none"]
    IN  /\ cache' = r.cache /\ versions' = r.versions /\ hashes' = r.hashes
        /\ mmret' = [fn |-> "get_full_hash", market |-> market, how |-> r.how, model |-> 0,
                     text |-> IF m \in DOMAIN r.hashes THEN r.hashes[m] ELSE Unknown]
        /\ UNCHANGED <<paths, files, models_dir>>

clear_cache ==
    /\ cache' = EmptyDict /\ versions' = EmptyDict /\ hashes' = EmptyDict
    /\ mmret' = [fn |-> "clear_cache", market |-> "", how |-> "none", model |-> 0,
                 text |-> Unknown]
    /\ UNCHANGED <<paths, files, models_dir>>

\* The model file at a configured path is written (jo.dump of a retrained
\* model, or a damaged copy) or removed (os.remove of an old version).
FileChange(m, f) ==
    /\ paths[m] /\ files[m] # f
    /\ files' = [files EXCEPT ![m] = f]
    /\ UNCHANGED <<paths, models_dir, cache, versions, hashes, mmret>>

\* The minor versions n of the files <prefix>-0.n.0.pkl that os.listdir
\* finds for market m: the one the configured path names, when that file
\* exists, and the others.
existing_versions(m) ==
    models_dir[m].others
        \cup (IF files[m].exists THEN {models_dir[m].configured} ELSE {})

\* '0.1.0' when there is no file of the prefix, else the highest version
\* with its minor number bumped
new_version(existing) ==
    IF existing = {} THEN 1
    ELSE (CHOOSE v \in existing : \A w \in existing : w <= v) + 1

\* trained_model(market, path), from jo.dump on, for a path of the form
\* <prefix>-x.y.z.pkl and a newly fitted model c: the model is written under
\* the new version, every other file of the prefix is removed,
\* train_service.MODEL_PATHS (not model_manager.MODEL_PATHS, which
\* get_model reads) is pointed at the new file and the cache is cleared.
trained_model(m, c) ==
    LET new_ver == new_version(existing_versions(m))
        at_configured == new_ver = models_dir[m].configured
    IN  /\ paths[m] /\ new_ver <= MaxVersion
        /\ files' = [files EXCEPT ![m] =
                        IF at_configured
                        THEN [exists |-> TRUE, content |-> c, loadable |-> TRUE]
                        ELSE NoFile]
        /\ models_dir' = [models_dir EXCEPT ![m].others =
                             IF at_configured THEN {} ELSE {new_ver}]
        /\ cache' = EmptyDict /\ versions' = EmptyDict /\ hashes' = EmptyDict
        /\ mmret' = [fn |-> "trained_model", market |-> m,
                     how |-> IF at_configured THEN "configured_path" ELSE "new_path",
                     model |-> c, text |-> SubSeq(Sha256(c), 1, VersionLen)]
        /\ UNCHANGED paths

\* One model file per market, the first version, at the configured path.
OneVersion == [m \in Markets |-> [configured |-> 1, others |-> {}]]

NoCall == [fn |-> "none", market |-> "", how |-> "none", model |-> 0, text |-> Unknown]

InitStore ==
    /\ paths \in [Markets -> BOOLEAN]
    /\ files \in [Markets -> FileStates]
    /\ \A m \in Markets : ~paths[m] => files[m] = NoFile
    /\ models_dir = OneVersion
    /\ cache = EmptyDict /\ versions = EmptyDict /\ hashes = EmptyDict
    /\ mmret = NoCall

NextStore ==
    \/ \E m \in MarketArgs : get_model(m)
    \/ \E m \in MarketArgs : get_version(m)
    \/ \E m \in MarketArgs : get_full_hash(m)
    \/ clear_cache
    \/ \E m \in Markets, f \in FileStates : FileChange(m, f)

(***************************************************************************)
(* Bar loader: train_service.load_dataset, one pass through the try block  *)
(* of the retry loop per step                                              *)
(***************************************************************************)
TickerNames == {"A", "B", ""}

RECURSIVE TickerLists(_)
TickerLists(n) ==
    IF n = 0 THEN {<<>>}
    ELSE LET shorter == TickerLists(n - 1)
         IN  shorter \cup {Append(s, t) : s \in shorter, t \in TickerNames}

max_retries == 3

\* How one pass through the try block ends: a table with rows is appended;
\* yf.download gave None or an empty table; an OHLCV column is missing; no
\* row is left after dropna; an exception whose text has "401",
\* "Unauthorized" or "Crumb"; any other exception.
ProviderOutcomes ==
    {"data", "empty", "missing_columns", "no_valid_rows", "rate_limit", "error"}

raises(outcome) == outcome \in {"rate_limit", "error"}
is_rate_limit(outcome) == outcome = "rate_limit"

\* wait_time with the same delay before every retry.
wait_constant(attempt) == 1

\* `wait_time = 2 ** attempt`, in seconds
wait_time(attempt) == 2 ^ attempt

\* failed_tickers.append(ticker) done twice.
record_failure_twice(failed, i) == failed \o <<i, i>>

\* failed_tickers.append(ticker): positions of the list stand for tickers
record_failure(failed, i) == Append(failed, i)

IdleLoader ==
    [pc |-> "idle", tickers |-> <<>>, i |-> 0, attempt |-> 0, history |-> <<>>,
     waits |-> <<>>, failed |-> <<>>, dataframes |-> <<>>, returned |-> <<>>]

\* load_dataset(tickers) entered: ticker_list built, nothing gathered yet
StartLoader(list) ==
    [pc |-> "loop", tickers |-> list, i |-> 1, attempt |-> 0,
     history |-> [k \in 1..Len(list) |-> <<>>], waits |-> [k \in 1..Len(list) |-> <<>>],
     failed |-> <<>>, dataframes |-> <<>>, returned |-> <<>>]

\* `if not ticker: continue`
LoadSkipEmpty ==
    /\ loader.pc = "loop" /\ loader.i <= Len(loader.tickers)
    /\ loader.tickers[loader.i] = ""
    /\ loader' = [loader EXCEPT !.i = @ + 1]
    /\ UNCHANGED <<pureVars, storeVars, detectVars, raceVars, job>>

\* One download attempt for the current ticker, ending as outcome says.
LoadAttempt(outcome) ==
    LET i == loader.i
        seen == [loader EXCEPT !.history[i] = Append(@, outcome)]
        next == [seen EXCEPT !.i = i + 1, !.attempt = 0]
    IN  /\ loader.pc = "loop" /\ i <= Len(loader.tickers)
        /\ loader.tickers[i] # ""
        /\ loader' =
              IF outcome = "data"
              THEN [next EXCEPT !.dataframes = Append(@, i)]
              ELSE IF ~raises(outcome)
              THEN [next EXCEPT !.failed = record_failure(@, i)]
              ELSE IF loader.attempt < max_retries - 1 /\ is_rate_limit(outcome)
              THEN [seen EXCEPT !.waits[i] = Append(@, wait_time(loader.attempt)),
                                !.attempt = @ + 1]
              ELSE [next EXCEPT !.failed = record_failure(@, i)]
        /\ UNCHANGED <<pureVars, storeVars, detectVars, raceVars, job>>

\* `return pd.concat(dataframes) if dataframes else pd.DataFrame()`
LoadReturn ==
    /\ loader.pc = "loop" /\ loader.i > Len(loader.tickers)
    /\ loader' = [loader EXCEPT !.pc = "done", !.returned = loader.dataframes]
    /\ UNCHANGED <<pureVars, storeVars, detectVars, raceVars, job>>

NextLoad ==
    \/ LoadSkipEmpty
    \/ \E outcome \in ProviderOutcomes : LoadAttempt(outcome)
    \/ LoadReturn

IdleJob == [pc |-> "idle"]

(***************************************************************************)
(* Detection: train_service.detect_anomalies_incremental / _adaptive       *)
(* over the provider (load_dataset) and the result sink (MongoDB)          *)
(***************************************************************************)
Tickers == {<<"A">>}

ADAPTIVE_MIN_SAMPLES == 20
ATR_MIN_PERIODS == 14

\* Timestamps at which a bar can be one the models label anomalous.
OutlierBars == {1, 14, 21}

\* Lengths of the series the provider serves: empty, either side of the two
\* row-count thresholds, and the longest.
BarCounts == {0, ATR_MIN_PERIODS - 1, ATR_MIN_PERIODS, ADAPTIVE_MIN_SAMPLES - 1,
              ADAPTIVE_MIN_SAMPLES, MaxBars}

NoRunId == 0        \* run_id None (start_run failed)
NoVersion == <<>>   \* a document without model_version

\* Keys of the document each path inserts into db.anomalies.
IncrementalFields ==
    {"ticker", "datetime", "Cclose", "volume", "detection_run_id", "detection_timestamp",
     "model_version", "model_hash", "interval", "features", "anomaly_score", "sent",
     "status", "reason"}
AdaptiveFields ==
    {"ticker", "datetime", "close", "volume", "sent", "status", "reason", "created_at"}

\* Columns of FlagNames that data_preprocessing and compute_rule_flags put on
\* the table.  identify_reason reads is_flash_crash first, so the values of
\* the columns present do not reach its result.
PipelineFlagNames ==
    {"MACD_Cross_Up", "MACD_Cross_Down", "EMA_Cross_Up", "is_vol_anomaly",
     "is_price_anomaly", "is_vei_anomaly", "is_absorption"}
PipelineRow == [flags |-> [k \in PipelineFlagNames |-> FALSE], Close_Z |-> Num(0)]

\* anomalies_df.apply(identify_reason, axis=1) inside try/except
top_reason(row, fallback) ==
    IF identify_reason(row) = KeyError THEN fallback ELSE identify_reason(row)

\* load_dataset for one ticker: the provider's bars, or nothing when the
\* download fails.
load_dataset(t, fail) == IF fail = "provider" THEN 0 ELSE bars[t]

\* Rows data_preprocessing returns for n loaded bars: ATR (ewm, min_periods
\* 14) is NaN on every row of a shorter table, ffill/bfill cannot fill it and
\* dropna(subset=['MACD','ATR','RSI']) drops every row.
data_preprocessing_rows(n) == IF n < ATR_MIN_PERIODS THEN 0 ELSE n

\* The rows the model labels -1 among rows 1..n, oldest first.
RECURSIVE SortedSeq(_)
SortedSeq(S) ==
    IF S = {} THEN <<>>
    ELSE LET x == CHOOSE y \in S : \A z \in S : y <= z
         IN  <<x>> \o SortedSeq(S \ {x})

anomaly_rows(t, n) == SortedSeq({b \in outliers[t] : b <= n})

\* db.anomalies.count_documents({ticker, datetime}) on collection coll
count_documents(coll, t, ts) ==
    Cardinality({i \in 1..Len(coll) : coll[i].ticker = t /\ coll[i].datetime = ts})

incremental_doc(t, ts, run_id, version) ==
    [ticker |-> t, datetime |-> ts, sent |-> FALSE, status |-> "new",
     reason |-> top_reason(PipelineRow, "System anomaly detected"),
     detection_run_id |-> run_id, model_version |-> version,
     fields |-> IncrementalFields]

adaptive_doc(t, ts) ==
    [ticker |-> t, datetime |-> ts, sent |-> FALSE, status |-> "new",
     reason |-> top_reason(PipelineRow, "Adaptive"),
     detection_run_id |-> NoRunId, model_version |-> NoVersion,
     fields |-> AdaptiveFields]

\* DetectionRun.start_run: the collection after it and the id it returns
start_run(t, version, fail) ==
    IF fail = "start_run"
    THEN [runs |-> runs, id |-> NoRunId]
    ELSE [runs |-> Append(runs, [ticker |-> t, status |-> "in_progress",
                                 model_version |-> version, anomalies_found |-> 0]),
          id |-> Len(runs) + 1]

\* A complete_run whose update is not applied.
complete_run_lost(rs, run_id, status, found) == rs

\* DetectionRun.complete_run: update_one on _id, which matches nothing for None
complete_run(rs, run_id, status, found) ==
    IF run_id = NoRunId THEN rs
    ELSE [rs EXCEPT ![run_id].status = status, ![run_id].anomalies_found = found]

NoMeta == [exists |-> FALSE, status |-> "", last_detected_timestamp |-> 0,
           model_version |-> NoVersion]

\* DetectionMetadata.save_metadata: upsert, or nothing when the write fails
\* (the exception is swallowed)
save_metadata(t, latest, version, fail) ==
    IF fail = "save_metadata" THEN meta
    ELSE [meta EXCEPT ![t] = [exists |-> TRUE, status |-> "complete",
                              last_detected_timestamp |-> latest,
                              model_version |-> version]]

\* for each doc: insert unless a document with its (ticker, datetime) exists
RECURSIVE insert_if_absent(_, _)
insert_if_absent(coll, docs) ==
    IF docs = <<>> THEN coll
    ELSE LET doc == Head(docs)
         IN  insert_if_absent(
                 IF count_documents(coll, doc.ticker, doc.datetime) = 0
                 THEN Append(coll, doc) ELSE coll,
                 Tail(docs))

\* db.anomalies.insert_many(docs), ordered: with fail = "insert_many" the
\* first k documents are written and the call raises
insert_many(coll, docs, fail, k) ==
    IF fail = "insert_many" THEN coll \o SubSeq(docs, 1, k) ELSE coll \o docs

Failures == {"none", "provider", "start_run", "insert_many", "save_metadata", "db_row"}

\* detect_anomalies_incremental after the model was obtained (steps 2-9):
\* r is the model store after get_model.
incremental_steps(t, r, fail, k) ==
    LET market == incremental_market(t)
        version == r.versions[market]
        started == start_run(t, version, fail)
        run_id == started.id
        n == load_dataset(t, fail)
        rows == data_preprocessing_rows(n)
        found == anomaly_rows(t, n)
        docs == [i \in 1..Len(found) |-> incremental_doc(t, found[i], run_id, version)]
        base == [anomalies |-> anomalies, meta |-> meta, run_id |-> run_id,
                 loaded |-> n, rows |-> rows, new_anomalies |-> 0, raised |-> FALSE]
    IN  IF n = 0
        THEN base @@ [runs |-> complete_run(started.runs, run_id, "failed", 0),
                      outcome |-> "no_data"]
        ELSE IF meta[t].exists /\ meta[t].status = "complete"
                /\ n <= meta[t].last_detected_timestamp
        THEN base @@ [runs |-> complete_run(started.runs, run_id, "complete", 0),
                      outcome |-> "already_detected"]
        ELSE IF rows = 0
        THEN base @@ [runs |-> complete_run(started.runs, run_id, "failed", 0),
                      outcome |-> "preprocessing_failed"]
        ELSE IF ~featuresOK                     \* df[features] raises KeyError
        THEN base @@ [runs |-> complete_run(started.runs, run_id, "failed", 0),
                      outcome |-> "exception"]
        ELSE IF fail = "insert_many" /\ Len(docs) > 0
        THEN [anomalies |-> insert_many(anomalies, docs, fail, k), meta |-> meta,
              runs |-> complete_run(started.runs, run_id, "failed", 0),
              run_id |-> run_id, loaded |-> n, rows |-> rows, new_anomalies |-> 0,
              raised |-> FALSE, outcome |-> "exception"]
        ELSE [anomalies |-> IF Len(docs) > 0 THEN insert_many(anomalies, docs, fail, k)
                            ELSE anomalies,
              meta |-> save_metadata(t, n, version, fail),
              runs |-> complete_run(started.runs, run_id, "complete", Len(found)),
              run_id |-> run_id, loaded |-> n, rows |-> rows,
              new_anomalies |-> Len(found), raised |-> FALSE, outcome |-> "ok"]

\* incremental_gate with the run started before the model is looked at.
incremental_gate_run_first(t, r, fail, k) ==
    IF r.how = "failed"
    THEN [anomalies |-> anomalies, meta |-> meta,
          runs |-> complete_run(start_run(t, NoVersion, fail).runs,
                                start_run(t, NoVersion, fail).id, "failed", 0),
          run_id |-> start_run(t, NoVersion, fail).id, loaded |-> 0, rows |-> 0,
          new_anomalies |-> 0, raised |-> FALSE, outcome |-> "model_unavailable"]
    ELSE incremental_steps(t, r, fail, k)

\* detect_anomalies_incremental, step 1: `if model is None: return {"error"}`
incremental_gate(t, r, fail, k) ==
    IF r.how = "failed"
    THEN [anomalies |-> anomalies, meta |-> meta, runs |-> runs, run_id |-> NoRunId,
          loaded |-> 0, rows |-> 0, new_anomalies |-> 0, raised |-> FALSE,
          outcome |-> "model_unavailable"]
    ELSE incremental_steps(t, r, fail, k)

\* Whether the failure injected into an incremental call is one the call
\* reaches (so that each (fail, k) names one behaviour of the call).
incremental_reaches(t, r, fail, k) ==
    LET n == bars[t]
        reachesScoring ==
            /\ r.how # "failed" /\ n > 0
            /\ ~(meta[t].exists /\ meta[t].status = "complete"
                 /\ n <= meta[t].last_detected_timestamp)
            /\ data_preprocessing_rows(n) > 0 /\ featuresOK
    IN  CASE fail = "none" -> k = 0
          [] fail = "provider" -> k = 0 /\ r.how # "failed"
          [] fail = "start_run" -> k = 0 /\ r.how # "failed"
          [] fail = "insert_many" -> reachesScoring /\ k < Len(anomaly_rows(t, n))
          [] fail = "save_metadata" -> k = 0 /\ reachesScoring
          [] OTHER -> FALSE

detect_anomalies_incremental(t, fail, k) ==
    LET r == GetModel(incremental_market(t))
        out == incremental_gate(t, r, fail, k)
    IN  /\ calls < MaxCalls
        /\ incremental_reaches(t, r, fail, k)
        /\ cache' = r.cache /\ versions' = r.versions /\ hashes' = r.hashes
        /\ anomalies' = out.anomalies /\ runs' = out.runs /\ meta' = out.meta
        /\ last' = [op |-> "incremental", ticker |-> t, outcome |-> out.outcome,
                    raised |-> out.raised, loaded |-> out.loaded, rows |-> out.rows,
                    fitted |-> FALSE, returned |-> out.new_anomalies,
                    run_id |-> out.run_id]
        /\ calls' = calls + 1
        /\ UNCHANGED <<pureVars, paths, files, models_dir, mmret, featuresOK, bars, outliers, raceVars, batchVars>>

\* detect_anomalies_adaptive: `if len(X) < ADAPTIVE_MIN_SAMPLES: return`
enough_samples(nX) == ~(nX < ADAPTIVE_MIN_SAMPLES)

\* The "Save to DB" loop of detect_anomalies_adaptive: with fail = "db_row"
\* the database call for the k-th row raises and that row is skipped.
adaptive_save(coll, t, found, fail, k) ==
    LET kept == IF fail = "db_row"
                THEN SelectSeq([i \in 1..Len(found) |-> IF i = k THEN 0 ELSE found[i]],
                               LAMBDA x : x # 0)
                ELSE found
    IN  insert_if_absent(coll, [i \in 1..Len(kept) |-> adaptive_doc(t, kept[i])])

adaptive_steps(t, fail, k) ==
    LET n == load_dataset(t, fail)
        rows == data_preprocessing_rows(n)
        found == anomaly_rows(t, n)
        base == [anomalies |-> anomalies, loaded |-> n, rows |-> rows, fitted |-> FALSE,
                 returned |-> 0, raised |-> FALSE]
    IN  IF n = 0 THEN base @@ [outcome |-> "no_data"]
        ELSE IF rows = 0 THEN base @@ [outcome |-> "empty_after_preprocessing"]
        ELSE IF ~featuresOK                     \* df[features] raises KeyError
        THEN [anomalies |-> anomalies, loaded |-> n, rows |-> rows, fitted |-> FALSE,
              returned |-> 0, raised |-> TRUE, outcome |-> "raised"]
        ELSE IF ~enough_samples(rows) THEN base @@ [outcome |-> "too_few_samples"]
        ELSE [anomalies |-> adaptive_save(anomalies, t, found, fail, k),
              loaded |-> n, rows |-> rows, fitted |-> TRUE, returned |-> Len(found),
              raised |-> FALSE, outcome |-> "ok"]

adaptive_reaches(t, fail, k) ==
    LET n == bars[t]
    IN  CASE fail = "none" -> k = 0
          [] fail = "provider" -> k = 0
          [] fail = "db_row" ->
                /\ data_preprocessing_rows(n) > 0 /\ featuresOK
                /\ enough_samples(data_preprocessing_rows(n))
                /\ k \in 1..Len(anomaly_rows(t, n))
          [] OTHER -> FALSE

detect_anomalies_adaptive(t, fail, k) ==
    LET out == adaptive_steps(t, fail, k)
    IN  /\ calls < MaxCalls
        /\ adaptive_reaches(t, fail, k)
        /\ anomalies' = out.anomalies
        /\ last' = [op |-> "adaptive", ticker |-> t, outcome |-> out.outcome,
                    raised |-> out.raised, loaded |-> out.loaded, rows |-> out.rows,
                    fitted |-> out.fitted, returned |-> out.returned,
                    run_id |-> NoRunId]
        /\ calls' = calls + 1
        /\ UNCHANGED <<pureVars, storeVars, featuresOK, bars, outliers, runs, meta, raceVars, batchVars>>

\* The provider serves more bars for the ticker: its series now has n.
NewBars(t, n) ==
    /\ bars[t] < n
    /\ bars' = [bars EXCEPT ![t] = n]
    /\ UNCHANGED <<batchVars, raceVars, pureVars, storeVars, featuresOK, outliers, anomalies, runs, meta,
                   last, calls>>

NoDetection == [op |-> "none", ticker |-> <<>>, outcome |-> "none", raised |-> FALSE,
                loaded |-> 0, rows |-> 0, fitted |-> FALSE, returned |-> 0,
                run_id |-> NoRunId]

TickerMarkets == {incremental_market(t) : t \in Tickers}

ThreadIds == 1..NumThreads
IdleThread == [pc |-> "idle", ticker |-> <<>>, todo |-> <<>>, seen |-> 0]
IdleStart == [pc |-> "idle", ticker |-> <<>>, model |-> 0, version |-> <<>>, hash |-> <<>>,
              run_id |-> 0, latest |-> 0]

InitDetect ==
    /\ featuresOK \in BOOLEAN
    /\ bars \in [Tickers -> BarCounts]
    /\ outliers \in [Tickers -> SUBSET OutlierBars]
    /\ anomalies = <<>> /\ runs = <<>>
    /\ meta = [t \in Tickers |-> NoMeta]
    /\ last = NoDetection
    /\ calls = 0
    /\ threads = [th \in ThreadIds |-> IdleThread]
    /\ starting = [th \in ThreadIds |-> IdleStart]
    /\ loader = IdleLoader /\ job = IdleJob

Init ==
    /\ call = [fn |-> "none", arg |-> 0] /\ ret = [done |-> FALSE, val |-> 0]
    /\ InitStore
    /\ \A m \in Markets \ TickerMarkets : ~paths[m]
    /\ \A m \in Markets : files[m].content <= 1
    /\ InitDetect

Next ==
    \/ \E t \in Tickers, fail \in Failures, k \in 0..Cardinality(OutlierBars) :
          detect_anomalies_incremental(t, fail, k)
    \/ \E t \in Tickers, fail \in Failures, k \in 0..Cardinality(OutlierBars) :
          detect_anomalies_adaptive(t, fail, k)
    \/ \E t \in Tickers, n \in BarCounts : NewBars(t, n)

Spec == Init /\ [][Next]_vars

(***************************************************************************)
(* Two chart requests running detect_anomalies_adaptive at the same time:  *)
(* the "Save to DB" loop taken one database call at a time                 *)
(***************************************************************************)
\* detect_anomalies_adaptive up to the loop: the rows it is about to save
AdaptiveBegin(th, t) ==
    LET out == adaptive_steps(t, "none", 0)
        found == IF out.outcome = "ok" THEN anomaly_rows(t, out.loaded) ELSE <<>>
    IN  /\ threads[th].pc = "idle"
        /\ threads' = [threads EXCEPT ![th] =
                          [pc |-> IF found = <<>> THEN "done" ELSE "check",
                           ticker |-> t, todo |-> found, seen |-> 0]]
        /\ UNCHANGED <<batchVars, pureVars, storeVars, detectVars, starting>>

\* db.anomalies.count_documents(query) for the next row
AdaptiveCheck(th) ==
    /\ threads[th].pc = "check"
    /\ threads' = [threads EXCEPT
                      ![th].seen = count_documents(anomalies, threads[th].ticker,
                                                   Head(threads[th].todo)),
                      ![th].pc = "insert"]
    /\ UNCHANGED <<batchVars, pureVars, storeVars, detectVars, starting>>

\* `if count == 0: db.anomalies.insert_one(doc)`, then the next row
AdaptiveInsert(th) ==
    /\ threads[th].pc = "insert"
    /\ anomalies' = IF threads[th].seen = 0
                    THEN Append(anomalies,
                                adaptive_doc(threads[th].ticker, Head(threads[th].todo)))
                    ELSE anomalies
    /\ threads' = [threads EXCEPT
                      ![th].todo = Tail(threads[th].todo),
                      ![th].pc = IF Tail(threads[th].todo) = <<>> THEN "done" ELSE "check"]
    /\ UNCHANGED <<batchVars, pureVars, storeVars, featuresOK, bars, outliers, runs, meta, last, calls,
                   starting>>

InitRace ==
    /\ call = [fn |-> "none", arg |-> 0] /\ ret = [done |-> FALSE, val |-> 0]
    /\ paths = [m \in Markets |-> FALSE] /\ files = [m \in Markets |-> NoFile]
    /\ models_dir = OneVersion
    /\ cache = EmptyDict /\ versions = EmptyDict /\ hashes = EmptyDict
    /\ mmret = NoCall
    /\ InitDetect

NextRace ==
    \/ \E th \in ThreadIds, t \in Tickers : AdaptiveBegin(th, t)
    \/ \E th \in ThreadIds : AdaptiveCheck(th)
    \/ \E th \in ThreadIds : AdaptiveInsert(th)

SpecRace == InitRace /\ [][NextRace]_vars

(***************************************************************************)
(* Chart requests and backfills running detect_anomalies_incremental at    *)
(* the same time as each other, as ModelManager.clear_cache and as a       *)
(* change of the model file: the call taken one ModelManager call and one  *)
(* database phase at a time.  A thread's record holds its local variables  *)
(* model, model_version, model_hash, run_id and latest_timestamp.          *)
(***************************************************************************)
\* model = get_model(market), up to `cls._cache[market] = model`; a call
\* without model returns the error.
IncrementalGetModel(th, t) ==
    LET r == GetModel(incremental_market(t))
    IN  /\ starting[th].pc = "idle" /\ calls < MaxStarts
        /\ calls' = calls + 1
        /\ cache' = r.cache
        /\ starting' = [starting EXCEPT ![th] =
              CASE r.how = "failed" -> IdleStart
                [] r.how = "hit" -> [IdleStart EXCEPT !.pc = "get_version", !.ticker = t,
                                                      !.model = r.val]
                [] OTHER -> [IdleStart EXCEPT !.pc = "caching", !.ticker = t,
                                              !.model = r.val]]
        /\ UNCHANGED <<pureVars, paths, files, models_dir, versions, hashes, mmret, featuresOK,
                       bars, outliers, anomalies, runs, meta, last, threads, batchVars>>

\* get_model, `cls._hashes[market] = file_hash` and `cls._versions[market] =
\* file_hash[:16]` of the thread that loaded the file
IncrementalCacheHashes(th) ==
    LET m == incremental_market(starting[th].ticker)
        file_hash == Sha256(starting[th].model)
    IN  /\ starting[th].pc = "caching"
        /\ hashes' = DictSet(hashes, m, file_hash)
        /\ versions' = DictSet(versions, m, SubSeq(file_hash, 1, VersionLen))
        /\ starting' = [starting EXCEPT ![th].pc = "get_version"]
        /\ UNCHANGED <<pureVars, paths, files, models_dir, cache, mmret, detectVars, threads,
                       batchVars>>

\* model_version = ModelManager.get_version(market)
IncrementalGetVersion(th) ==
    LET m == incremental_market(starting[th].ticker)
        r == IF m \notin DOMAIN versions THEN GetModel(m)
             ELSE [cache |-> cache, versions |-> versions, hashes |-> hashes]
    IN  /\ starting[th].pc = "get_version"
        /\ cache' = r.cache /\ versions' = r.versions /\ hashes' = r.hashes
        /\ starting' = [starting EXCEPT
              ![th].pc = "get_full_hash",
              ![th].version = IF m \in DOMAIN r.versions THEN r.versions[m] ELSE Unknown]
        /\ UNCHANGED <<pureVars, paths, files, models_dir, mmret, detectVars, threads, batchVars>>

\* model_hash = ModelManager.get_full_hash(market); run_id = start_run(...)
IncrementalGetFullHash(th) ==
    LET m == incremental_market(starting[th].ticker)
        r == IF m \notin DOMAIN hashes THEN GetModel(m)
             ELSE [cache |-> cache, versions |-> versions, hashes |-> hashes]
        started == start_run(starting[th].ticker, starting[th].version, "none")
    IN  /\ starting[th].pc = "get_full_hash"
        /\ cache' = r.cache /\ versions' = r.versions /\ hashes' = r.hashes
        /\ runs' = started.runs
        /\ starting' = [starting EXCEPT
              ![th].pc = "load", ![th].run_id = started.id,
              ![th].hash = IF m \in DOMAIN r.hashes THEN r.hashes[m] ELSE Unknown]
        /\ UNCHANGED <<pureVars, paths, files, models_dir, mmret, featuresOK, bars, outliers,
                       anomalies, meta, last, calls, threads, batchVars>>

\* Steps 3 to 6: load_dataset, latest_timestamp, the already-detected
\* check, preprocessing and the feature matrix.
IncrementalLoad(th) ==
    LET t == starting[th].ticker
        n == load_dataset(t, "none")
        skipped == /\ n # 0 /\ meta[t].exists /\ meta[t].status = "complete"
                   /\ n <= meta[t].last_detected_timestamp
        failed == ~skipped /\ (n = 0 \/ data_preprocessing_rows(n) = 0 \/ ~featuresOK)
    IN  /\ starting[th].pc = "load"
        /\ runs' = IF skipped THEN complete_run(runs, starting[th].run_id, "complete", 0)
                   ELSE IF failed THEN complete_run(runs, starting[th].run_id, "failed", 0)
                   ELSE runs
        /\ starting' = [starting EXCEPT ![th] =
              IF skipped \/ failed THEN IdleStart
              ELSE [starting[th] EXCEPT !.pc = "save", !.latest = n]]
        /\ UNCHANGED <<pureVars, storeVars, featuresOK, bars, outliers, anomalies, meta, last,
                       calls, threads, batchVars>>

\* Steps 6 to 9: predict, insert_many, save_metadata, complete_run.
IncrementalSave(th) ==
    LET t == starting[th].ticker
        found == anomaly_rows(t, starting[th].latest)
        docs == [i \in 1..Len(found) |->
                    incremental_doc(t, found[i], starting[th].run_id, starting[th].version)]
    IN  /\ starting[th].pc = "save"
        /\ anomalies' = insert_many(anomalies, docs, "none", 0)
        /\ meta' = save_metadata(t, starting[th].latest, starting[th].version, "none")
        /\ runs' = complete_run(runs, starting[th].run_id, "complete", Len(found))
        /\ starting' = [starting EXCEPT ![th] = IdleStart]
        /\ UNCHANGED <<pureVars, storeVars, featuresOK, bars, outliers, last, calls, threads,
                       batchVars>>

\* A series of 20 bars whose first bar the model flags, and a loadable
\* model file for the ticker's market.
InitConcurrent ==
    /\ call = [fn |-> "none", arg |-> 0] /\ ret = [done |-> FALSE, val |-> 0]
    /\ paths = [m \in Markets |-> m \in TickerMarkets]
    /\ files \in [Markets -> FileStates]
    /\ \A m \in Markets : IF paths[m] THEN files[m].loadable ELSE files[m] = NoFile
    /\ models_dir = OneVersion
    /\ cache = EmptyDict /\ versions = EmptyDict /\ hashes = EmptyDict
    /\ mmret = NoCall
    /\ featuresOK = TRUE
    /\ bars = [t \in Tickers |-> ADAPTIVE_MIN_SAMPLES]
    /\ outliers = [t \in Tickers |-> {1}]
    /\ anomalies = <<>> /\ runs = <<>>
    /\ meta = [t \in Tickers |-> NoMeta]
    /\ last = NoDetection
    /\ calls = 0
    /\ threads = [th \in ThreadIds |-> IdleThread]
    /\ starting = [th \in ThreadIds |-> IdleStart]
    /\ loader = IdleLoader /\ job = IdleJob

NextConcurrent ==
    \/ \E th \in ThreadIds, t \in Tickers : IncrementalGetModel(th, t)
    \/ \E th \in ThreadIds : IncrementalCacheHashes(th)
    \/ \E th \in ThreadIds : IncrementalGetVersion(th)
    \/ \E th \in ThreadIds : IncrementalGetFullHash(th)
    \/ \E th \in ThreadIds : IncrementalLoad(th)
    \/ \E th \in ThreadIds : IncrementalSave(th)
    \/ clear_cache /\ UNCHANGED <<pureVars, detectVars, raceVars, batchVars>>
    \/ \E m \in TickerMarkets, f \in FileStates :
          FileChange(m, f) /\ UNCHANGED <<pureVars, detectVars, raceVars, batchVars>>
    \/ \E t \in Tickers, n \in BarCounts : NewBars(t, n)

SpecConcurrent == InitConcurrent /\ [][NextConcurrent]_vars

\* The detection state while no detection runs.
IdleDetection ==
    /\ featuresOK = TRUE
    /\ bars = [t \in Tickers |-> 0] /\ outliers = [t \in Tickers |-> {}]
    /\ anomalies = <<>> /\ runs = <<>>
    /\ meta = [t \in Tickers |-> NoMeta]
    /\ last = NoDetection
    /\ calls = 0
    /\ threads = [th \in ThreadIds |-> IdleThread]
    /\ starting = [th \in ThreadIds |-> IdleStart]

IdleDetect == IdleDetection /\ loader = IdleLoader /\ job = IdleJob

InitModel ==
    /\ InitStore
    /\ call = [fn |-> "none", arg |-> 0] /\ ret = [done |-> FALSE, val |-> 0]
    /\ IdleDetect

NextModel == NextStore /\ UNCHANGED <<pureVars, detectVars, raceVars, batchVars>>

SpecModel == InitModel /\ [][NextModel]_vars

\* Retraining: the US market has a configured path of version 0.1.0 or
\* 0.2.0, and any of the files of the prefix may exist.
InitTrain ==
    /\ call = [fn |-> "none", arg |-> 0] /\ ret = [done |-> FALSE, val |-> 0]
    /\ paths = [m \in Markets |-> m = "US"]
    /\ files \in [Markets -> FileStates]
    /\ \A m \in Markets : ~paths[m] => files[m] = NoFile
    /\ \E v \in 1..(MaxVersion - 1), s \in SUBSET (1..(MaxVersion - 1)) :
          /\ v \notin s
          /\ models_dir = [OneVersion EXCEPT !["US"] = [configured |-> v, others |-> s]]
    /\ cache = EmptyDict /\ versions = EmptyDict /\ hashes = EmptyDict
    /\ mmret = NoCall
    /\ IdleDetect

NextTrain ==
    \/ NextStore /\ UNCHANGED <<pureVars, detectVars, raceVars, batchVars>>
    \/ \E m \in Markets, c \in Contents :
          trained_model(m, c) /\ UNCHANGED <<pureVars, detectVars, raceVars, batchVars>>

SpecTrain == InitTrain /\ [][NextTrain]_vars

\* load_dataset called with a list of tickers.
InitLoad ==
    /\ call = [fn |-> "none", arg |-> 0] /\ ret = [done |-> FALSE, val |-> 0]
    /\ paths = [m \in Markets |-> FALSE] /\ files = [m \in Markets |-> NoFile]
    /\ models_dir = OneVersion
    /\ cache = EmptyDict /\ versions = EmptyDict /\ hashes = EmptyDict
    /\ mmret = NoCall
    /\ IdleDetection
    /\ job = IdleJob
    /\ loader \in {StartLoader(list) : list \in TickerLists(MaxList)}

SpecLoad == InitLoad /\ [][NextLoad]_vars

\* The call runs on one thread and every download returns or raises, so a
\* step that can be taken is taken.
SpecLoadFair == SpecLoad /\ WF_vars(NextLoad)

(***************************************************************************)
(* Post-filters of detect_anomalies_adaptive                               *)
(***************************************************************************)
\* Columns on the table after load_dataset and data_preprocessing
\* (train_service.py).
DataPreprocessingColumns ==
    {"Datetime", "Open", "High", "Low", "Close", "Volume", "Ticker",
     "return_1", "return_3", "return_6", "roll_mean_20", "roll_std_20", "Close_Z",
     "ATR", "ATR_short", "bb_upper", "bb_lower", "bb_width", "B_Percent",
     "MA5", "MA25", "MA75", "EMA_Fast", "EMA_Slow", "RSI", "MACD", "Signal_Line",
     "MACD_Hist", "VWAP", "Vol_Z", "Vol_MACD", "Vol_MACD_Signal", "VEI",
     "body", "upper_wick", "lower_wick", "Relative_Wick",
     "MACD_Cross_Up", "MACD_Cross_Down", "EMA_Cross_Up"}

\* Columns compute_rule_flags adds when it runs through.
RuleFlagColumns ==
    {"Price_Shock", "Price_Shock_Std", "is_vol_anomaly", "is_price_anomaly",
     "is_vei_anomaly", "is_absorption", "Price_warning"}

PreprocessedColumns == DataPreprocessingColumns \cup RuleFlagColumns

ADAPTIVE_ZSCORE_THRESHOLD == 15     \* 1.5, z-scores in tenths
\* ADAPTIVE_SCORE_THRESHOLD: None, or a score (in hundredths)
NoThreshold == [set |-> FALSE, v |-> 0]
ScoreThresholds == {NoThreshold, [set |-> TRUE, v |-> -60]}

\* A scored row of df: the model's label (-1 anomalous, 1 normal), the
\* close-price z-score (column Close_Z) and score_samples' value.
ScoredRows ==
    [label : {-1, 1}, Close_Z : {-20, 0, 10, 15}, anomaly_score : {-70, -50}]

RECURSIVE ScoredTables(_)
ScoredTables(n) ==
    IF n = 0 THEN {<<>>}
    ELSE LET shorter == ScoredTables(n - 1)
         IN  shorter \cup {Append(s, r) : s \in shorter, r \in ScoredRows}

\* detect_anomalies_adaptive from the anomaly mask to the rows it saves and
\* returns: positions of tbl, oldest first.
adaptive_post_filter(tbl, columns, score_threshold) ==
    LET all == [i \in 1..Len(tbl) |-> i]
        flagged == SelectSeq(all, LAMBDA i : tbl[i].label = -1)
        byZ == IF "zscore_20" \in columns
               THEN SelectSeq(flagged,
                        LAMBDA i : Abs(tbl[i].zscore_20) >= ADAPTIVE_ZSCORE_THRESHOLD)
               ELSE flagged
        byScore == IF score_threshold.set
                   THEN SelectSeq(byZ, LAMBDA i : tbl[i].anomaly_score <= score_threshold.v)
                   ELSE byZ
    IN  IF flagged = <<>> THEN <<>> ELSE byScore

(***************************************************************************)
(* Batch scan: scheduler.job_for_market over train_service.detect_anomalies *)
(***************************************************************************)
batch_size == 10

\* Bars the provider serves for a ticker of the scan: none, fewer than ATR
\* needs, enough.
ScanBars == {0, 5, ATR_MIN_PERIODS}

\* Columns detect_anomalies reads from the preprocessed table, in the order
\* it reads them, and the columns it has added by then.
LegacyReads ==
    << [col |-> "Price_Shock", added |-> {}],
       [col |-> "Vol_Z", added |-> {}],
       [col |-> "VEI_Z", added |-> {"is_vol_anomaly", "is_price_anomaly"}],
       [col |-> "Relative_Wick", added |-> {"is_vol_anomaly", "is_price_anomaly",
                                           "is_vei_anomaly"}],
       [col |-> "Close_Z", added |-> {"is_vol_anomaly", "is_price_anomaly",
                                      "is_vei_anomaly", "is_flash_crash", "is_absorption"}],
       [col |-> "Is_Anomaly", added |-> {"is_vol_anomaly", "is_price_anomaly",
                                         "is_vei_anomaly", "is_flash_crash", "is_absorption",
                                         "is_price_volume_warning", "Top_Reason"}] >>

\* The body of detect_anomalies' loop for one ticker with n bars: how it ends.
detect_anomalies_ticker(n) ==
    IF n = 0 THEN "no_data"                 \* load_dataset gave no rows
    ELSE IF data_preprocessing_rows(n) = 0 THEN "empty_after_preprocessing"
    ELSE IF \E k \in 1..Len(LegacyReads) :
                LegacyReads[k].col \notin DataPreprocessingColumns \cup LegacyReads[k].added
    THEN "KeyError"
    ELSE "scanned"

\* The first position of the batch after the one holding position pos.
next_batch(pos) == ((pos - 1) \div batch_size + 1) * batch_size + 1

\* job_for_market with n tickers to monitor
StartJob(n) ==
    [pc |-> IF n = 0 THEN "done" ELSE "scan", n |-> n, pos |-> 1,
     seen |-> [i \in 1..n |-> "pending"], persisted |-> {}, failed_batches |-> 0]

\* detect_anomalies reaches the ticker at position job.pos of its batch; the
\* provider serves n bars for it.  An exception leaves detect_anomalies and
\* is caught by job_for_market, which goes on with the next batch.
JobTicker(n) ==
    LET out == detect_anomalies_ticker(n)
        pos == job.pos
    IN  /\ job.pc = "scan" /\ pos <= job.n
        /\ job' = IF out = "KeyError"
                  THEN [job EXCEPT !.seen[pos] = out, !.pos = next_batch(pos),
                                   !.failed_batches = @ + 1]
                  ELSE [job EXCEPT !.seen[pos] = out, !.pos = pos + 1,
                                   !.persisted = IF out = "scanned" THEN @ \cup {pos}
                                                 ELSE @]
        /\ UNCHANGED <<pureVars, storeVars, detectVars, raceVars, loader>>

\* The last batch is over: the job logs its total and returns (its total is
\* 0, so no notification is sent).
JobFinish ==
    /\ job.pc = "scan" /\ job.pos > job.n
    /\ job' = [job EXCEPT !.pc = "done"]
    /\ UNCHANGED <<pureVars, storeVars, detectVars, raceVars, loader>>

NextJob ==
    \/ \E n \in ScanBars : JobTicker(n)
    \/ JobFinish

InitJob ==
    /\ call = [fn |-> "none", arg |-> 0] /\ ret = [done |-> FALSE, val |-> 0]
    /\ paths = [m \in Markets |-> FALSE] /\ files = [m \in Markets |-> NoFile]
    /\ models_dir = OneVersion
    /\ cache = EmptyDict /\ versions = EmptyDict /\ hashes = EmptyDict
    /\ mmret = NoCall
    /\ IdleDetection
    /\ loader = IdleLoader
    /\ job \in {StartJob(n) : n \in 0..MaxTickers}

SpecJob == InitJob /\ [][NextJob]_vars

(***************************************************************************)
(* Rule flags: train_service.compute_rule_flags                            *)
(***************************************************************************)
FlagInputs == {"Vol_Z", "VEI", "Price_Shock", "Close"}

\* A row of the input table: Vol_Z and VEI in tenths, Price_Shock in
\* hundredths, Close in currency units.
FlagRows == [Vol_Z : {0, 30, 35}, VEI : {0, 15}, Price_Shock : {0, 3}, Close : {20, 25}]

\* The sequences of at most n elements of S
SeqsOver(S, n) == UNION {[1..k -> S] : k \in 0..n}

\* The tables handed to compute_rule_flags: None, or rows under a set of
\* columns (a row's value of a column that is not on the table is not read).
NoTable == [none |-> TRUE, cols |-> {}, rows |-> <<>>]
FlagTables ==
    {NoTable} \cup
    {[none |-> FALSE, cols |-> c, rows |-> r] : c \in SUBSET FlagInputs,
                                              r \in SeqsOver(FlagRows, MaxFlagRows)}

\* df['Close'].pct_change(periods=1), in hundredths: NaN on the first row
close_pct_change(rows, i) ==
    IF i = 1 THEN NaN
    ELSE Num(((rows[i].Close - rows[i - 1].Close) * 100) \div rows[i - 1].Close)

\* df['Price_Shock'].rolling(20).std().fillna(0): the window is never full
\* on a table of fewer than 20 rows, so the value is NaN filled with 0.
price_shock_std(rows, i) == 0

\* x > y on floats: False when x is NaN
GreaterThan(x, y) == ~x.nan /\ x.v > y
LessThan(x, y) == ~x.nan /\ x.v < y
AbsNum(x) == IF x.nan THEN NaN ELSE Num(Abs(x.v))

\* The flag values compute_rule_flags assigns on row i.
rule_flags(df, i) ==
    LET vol_z == IF "Vol_Z" \in df.cols THEN Num(df.rows[i].Vol_Z) ELSE Num(0)
        vei == IF "VEI" \in df.cols THEN Num(df.rows[i].VEI) ELSE Num(0)
        price_shock == IF "Price_Shock" \in df.cols THEN Num(df.rows[i].Price_Shock)
                       ELSE close_pct_change(df.rows, i)
        pstd == price_shock_std(df.rows, i)
    IN  [is_vol_anomaly |-> GreaterThan(vol_z, 30),
         is_price_anomaly |-> GreaterThan(AbsNum(price_shock), (pstd * 25) \div 10),
         is_vei_anomaly |-> GreaterThan(vei, 12),
         is_absorption |-> GreaterThan(vol_z, 20)
                           /\ LessThan(AbsNum(price_shock), (pstd * 5) \div 10),
         Price_warning |-> GreaterThan(vol_z, 20)]

\* compute_rule_flags(df): whether it raised, the columns of the table it
\* returns and the flag values of its rows (none when no flag was assigned).
compute_rule_flags(df) ==
    IF df.none \/ df.rows = <<>>
    THEN [raised |-> FALSE, cols |-> df.cols, flags |-> <<>>]
    ELSE IF "Price_Shock" \notin df.cols /\ "Close" \notin df.cols
    THEN [raised |-> FALSE, cols |-> df.cols, flags |-> <<>>]  \* KeyError, caught
    ELSE [raised |-> FALSE, cols |-> df.cols \cup RuleFlagColumns,
          flags |-> [i \in 1..Len(df.rows) |-> rule_flags(df, i)]]

(***************************************************************************)
(* Row count of train_service.data_preprocessing                           *)
(***************************************************************************)
\* A bar series as the provider returns it: n bars, the bars at the
\* positions of `missing` lacking one of Open, High, Low, Close, Volume.
BarSeries ==
    UNION {{[n |-> n, missing |-> m] :
               m \in {s \in SUBSET (1..n) : Cardinality(s) <= MaxMissing}} :
           n \in 1..MaxSeries}

\* df.dropna(subset=['Open','High','Low','Close','Volume']): rows left
dropna_ohlcv(series) == series.n - Cardinality(series.missing)

\* Whether a column has a value on row i of a table of m rows, before the
\* final fill: ATR is ewm(min_periods=14) of the true range, RSI is an ewm
\* of Close.diff() (NaN on the first row), MACD is an ewm of Close.
column_defined(col, m, i) ==
    CASE col = "ATR" -> i >= ATR_MIN_PERIODS
      [] col = "RSI" -> i >= 2
      [] col = "MACD" -> TRUE

\* df.ffill().bfill() on one column: every row gets a value when some row
\* has one, and the column stays NaN otherwise.
filled(col, m) == \E i \in 1..m : column_defined(col, m, i)

\* Rows data_preprocessing returns: the rows left by the first dropna whose
\* MACD, ATR and RSI are not NaN after the fill.
data_preprocessing_count(series) ==
    LET m == dropna_ohlcv(series)
    IN  Cardinality({i \in 1..m : \A col \in {"MACD", "ATR", "RSI"} : filled(col, m)})

(***************************************************************************)
(* Feature matrix: the return columns of train_service.data_preprocessing  *)
(* as they reach model.predict / fit_predict                               *)
(***************************************************************************)
ReturnColumns == <<[name |-> "return_1", periods |-> 1],
                   [name |-> "return_3", periods |-> 3],
                   [name |-> "return_6", periods |-> 6]>>

\* Close series of ATR_MIN_PERIODS bars or more (shorter ones leave no row):
\* a head over ClosePrices followed by bars closing at 25.
FeatureCloses ==
    {h \o [i \in 1..(ATR_MIN_PERIODS - Len(h) + 1) |-> 25] : h \in CloseSeqs(MaxCloses)}

\* c[i] / c[i - p] - 1 as floats compute it, as [kind, v] like pct_change
change(prev, cur) ==
    IF prev = 0
    THEN IF cur = 0 THEN [kind |-> "nan", v |-> 0] ELSE [kind |-> "inf", v |-> 0]
    ELSE [kind |-> "num", v |-> (cur - prev) * (ReturnScale \div prev)]

\* df.groupby("Ticker")["Close"].pct_change(p): one cell per row, NaN on
\* the first p rows
return_column(c, p) ==
    [i \in 1..Len(c) |-> IF i <= p THEN [kind |-> "nan", v |-> 0]
                         ELSE change(c[i - p], c[i])]

\* df.ffill().bfill() on one column: a NaN cell takes the nearest earlier
\* cell that is not NaN, else the first later one; an infinite cell is a
\* value like any other.
ffill_bfill(col) ==
    [i \in 1..Len(col) |->
        LET earlier == {j \in 1..i : col[j].kind # "nan"}
            later == {j \in i..Len(col) : col[j].kind # "nan"}
        IN  IF earlier # {} THEN col[CHOOSE j \in earlier : \A k \in earlier : k <= j]
            ELSE IF later # {} THEN col[CHOOSE j \in later : \A k \in later : j <= k]
            ELSE col[i]]

\* X = df[features].dropna() for features return_1, return_3, return_6: the
\* rows without a NaN cell, each a tuple of the three cells.
feature_matrix(c) ==
    LET cols == [k \in 1..Len(ReturnColumns) |->
                    ffill_bfill(return_column(c, ReturnColumns[k].periods))]
        rows == [i \in 1..Len(c) |-> [k \in 1..Len(ReturnColumns) |-> cols[k][i]]]
    IN  SelectSeq(rows, LAMBDA r : \A k \in 1..Len(ReturnColumns) : r[k].kind # "nan")

(***************************************************************************)
(* RSI: calculate_rsi of train_service.data_preprocessing and the RSI of   *)
(* train.data_preprocessing                                                *)
(***************************************************************************)
RSI_PERIOD == 14
Implementations == {"train_service", "train"}

\* min_periods of the two ewm calls: the default (0) in calculate_rsi, 14
\* in train.py
rsi_min_periods(impl) == IF impl = "train" THEN RSI_PERIOD ELSE 0

\* The Close series: short ones and ones of ATR_MIN_PERIODS bars or more
RsiCloses == (CloseSeqs(MaxCloses) \ {<<>>}) \cup FeatureCloses

\* The RSI column before the fill, one cell per row.  gain and loss are the
\* smoothed averages of the rises and the falls of Close (ewm, com = 13,
\* adjust=False) kept by sign: an average of non-negative terms is positive
\* exactly when one of its terms is.  Close.diff() is NaN on the first row,
\* and the ewm is NaN on a row with fewer than min_periods observations.
rsi_column(c, min_periods) ==
    [i \in 1..Len(c) |->
        IF i = 1 \/ i - 1 < min_periods
        THEN [kind |-> "nan", gain |-> FALSE, loss |-> FALSE]
        ELSE [kind |-> "num",
              gain |-> \E j \in 2..i : c[j] > c[j - 1],
              loss |-> \E j \in 2..i : c[j] < c[j - 1]]]

\* df.fillna(method='bfill').fillna(method='ffill') on one column
bfill_ffill(col) ==
    [i \in 1..Len(col) |->
        LET earlier == {j \in 1..i : col[j].kind # "nan"}
            later == {j \in i..Len(col) : col[j].kind # "nan"}
        IN  IF later # {} THEN col[CHOOSE j \in later : \A k \in later : j <= k]
            ELSE IF earlier # {} THEN col[CHOOSE j \in earlier : \A k \in earlier : k <= j]
            ELSE col[i]]

\* The RSI cells of the rows data_preprocessing returns.  train_service
\* fills forward then backward and drops the rows whose ATR or RSI is still
\* NaN; train.py fills backward then forward and drops nothing.
rsi_rows(impl, c) ==
    LET col == rsi_column(c, rsi_min_periods(impl))
    IN  IF impl = "train" THEN bfill_ffill(col)
        ELSE IF ~filled("ATR", Len(c)) THEN <<>>
        ELSE SelectSeq(ffill_bfill(col), LAMBDA r : r.kind # "nan")

\* rs = avg_gain / avg_loss.replace(0, 1e-6), by sign: 0 when there is no
\* gain, positive otherwise (the denominator is positive in both cases)
rs_sign(cell) == IF cell.gain THEN 1 ELSE 0

(***************************************************************************)
(* Wick ratio: train.data_preprocessing                                    *)
(***************************************************************************)
WickScale == 2              \* wick_ratio is kept in halves
WICK_RATIO_CAP == 20

\* A candle by its body |Close - Open| and the sum of its two wicks
Candles == [body : {0, 1, 2}, wicks : {0, 3, 50}]

\* The loop over the rows: a bar without body takes the wick_ratio of the
\* row before it, 0 on the first row; the others (upper + lower) / body.
RECURSIVE wick_loop(_, _)
wick_loop(df, i) ==
    IF df[i].body = 0
    THEN IF i > 1 THEN wick_loop(df, i - 1) ELSE 0
    ELSE (df[i].wicks * WickScale) \div df[i].body

\* Series.clip(upper=20)
clip_upper(x, cap) == IF x > cap THEN cap ELSE x

\* The wick_ratio column data_preprocessing returns: the loop, the clip,
\* then the backward and forward fill of the table.
wick_ratio(df) ==
    bfill_ffill([i \in 1..Len(df) |->
        [kind |-> "num", v |-> clip_upper(wick_loop(df, i), WICK_RATIO_CAP * WickScale)]])

(***************************************************************************)
(* Crossover flags: train_service.data_preprocessing, signals & crossovers *)
(***************************************************************************)
\* A row of the table by its two series, fast (MACD, EMA_Fast) and slow
\* (Signal_Line, EMA_Slow), and the symbol the row belongs to.
CrossRows == [Ticker : {"A"}, fast : 0..2, slow : 0..1]

\* Series.shift(1) on a column of the table: NaN on the first row, the
\* value of the row before on the others
shift(tbl, col) ==
    [i \in 1..Len(tbl) |-> IF i = 1 THEN NaN ELSE Num(tbl[i - 1][col])]

\* The flags with the comparison of the row before left out.
cross_level(tbl) ==
    [i \in 1..Len(tbl) |->
        [up |-> tbl[i].fast > tbl[i].slow, down |-> tbl[i].fast < tbl[i].slow]]

\* (fast > slow) & (fast.shift(1) <= slow.shift(1)), and the same with < and
\* >= for the cross down; a comparison with NaN is False.
cross_flags(tbl) ==
    LET prev_fast == shift(tbl, "fast")
        prev_slow == shift(tbl, "slow")
    IN  [i \in 1..Len(tbl) |->
            [up |-> /\ tbl[i].fast > tbl[i].slow
                    /\ ~prev_fast[i].nan /\ ~prev_slow[i].nan
                    /\ prev_fast[i].v <= prev_slow[i].v,
             down |-> /\ tbl[i].fast < tbl[i].slow
                      /\ ~prev_fast[i].nan /\ ~prev_slow[i].nan
                      /\ prev_fast[i].v >= prev_slow[i].v]]

(***************************************************************************)
(* Parabolic SAR: train_service._calculate_parabolic_sar                   *)
(***************************************************************************)
\* Acceleration factors are kept in fiftieths (0.02 = 1, 0.2 = 10), prices
\* and stops in units of 1 / SarScale, so that sar + af * (ep - sar) stays
\* exact over MaxSarBars bars.
AfScale == 50
SarScale == AfScale ^ (MaxSarBars - 1)

\* The bars of the high and low series, low <= high, and the initial_af and
\* max_af arguments (the defaults 0.02 / 0.2, and 0.1 / 0.16).
SarBars == {b \in [high : 1..3, low : 1..3] : b.low <= b.high}
SarArgs ==
    {[bars |-> b, initial_af |-> a.initial, max_af |-> a.max] :
        b \in SeqsOver(SarBars, MaxSarBars),
        a \in {[initial |-> 1, max |-> 10], [initial |-> 5, max |-> 8]}}

\* The acceleration factor on a bar where the trend flips: left as it was,
\* and set to initial_af
af_kept(initial_af, af) == af
af_on_flip(initial_af, af) == initial_af

\* The arrays after the loop has run up to bar i (1-based): one record per
\* bar with sar, ep, trend, af, and the stop the reversal test used (the sar
\* after the min / max with the two prior lows / highs; 0 on the first bar,
\* which has no test).
RECURSIVE sar_loop(_, _)
sar_loop(p, i) ==
    LET high(j) == p.bars[j].high * SarScale
        low(j) == p.bars[j].low * SarScale
        min(a, b) == IF a < b THEN a ELSE b
        max(a, b) == IF a > b THEN a ELSE b
    IN  IF i = 1
        THEN LET up == high(2) > low(1)
             IN  <<[trend |-> IF up THEN 1 ELSE -1, af |-> p.initial_af, stop |-> 0,
                    sar |-> IF up THEN low(1) ELSE high(1),
                    ep |-> IF up THEN high(1) ELSE low(1)]>>
        ELSE LET before == sar_loop(p, i - 1)
                 prev == before[i - 1]
                 next == prev.sar + (prev.af * (prev.ep - prev.sar)) \div AfScale
                 two == IF i >= 3 THEN i - 2 ELSE 1
                 raised == min(prev.af + p.initial_af, p.max_af)
             IN  IF prev.trend = 1
                 THEN LET stop == min(min(next, low(i - 1)), low(two))
                      IN  IF low(i) < stop
                          THEN Append(before, [trend |-> -1, sar |-> prev.ep, ep |-> low(i),
                                               af |-> af_on_flip(p.initial_af, prev.af),
                                               stop |-> stop])
                          ELSE Append(before, [trend |-> 1, sar |-> stop, stop |-> stop,
                                   ep |-> IF high(i) > prev.ep THEN high(i) ELSE prev.ep,
                                   af |-> IF high(i) > prev.ep THEN raised ELSE prev.af])
                 ELSE LET stop == max(max(next, high(i - 1)), high(two))
                      IN  IF high(i) > stop
                          THEN Append(before, [trend |-> 1, sar |-> prev.ep, ep |-> high(i),
                                               af |-> af_on_flip(p.initial_af, prev.af),
                                               stop |-> stop])
                          ELSE Append(before, [trend |-> -1, sar |-> stop, stop |-> stop,
                                   ep |-> IF low(i) < prev.ep THEN low(i) ELSE prev.ep,
                                   af |-> IF low(i) < prev.ep THEN raised ELSE prev.af])

\* _calculate_parabolic_sar: the arrays are left at zero for fewer than two
\* bars.
calculate_parabolic_sar(p) ==
    IF Len(p.bars) < 2
    THEN [i \in 1..Len(p.bars) |-> [trend |-> 0, af |-> 0, stop |-> 0, sar |-> 0, ep |-> 0]]
    ELSE sar_loop(p, Len(p.bars))

(***************************************************************************)
(* data_preprocessing on a table holding several symbols (trained_model):  *)
(* return_1, EMA_Fast / EMA_Slow, VWAP, EMA_Cross_Up and the final fill,   *)
(* up to line 489 (the table before the last dropna)                       *)
(***************************************************************************)
TableSymbols == {"A", "B"}
SymbolBars == [Close : {20, 25}, Volume : {1, 2}]
EMA_FAST_SPAN == 20
EMA_SLOW_SPAN == 50

\* load_dataset(tickers): the bars of the first symbol followed by those of
\* the second; either may have none.
SymbolTables ==
    {[i \in 1..(Len(a) + Len(b)) |->
         IF i <= Len(a)
         THEN [Ticker |-> o[1], Close |-> a[i].Close, Volume |-> a[i].Volume]
         ELSE [Ticker |-> o[2], Close |-> b[i - Len(a)].Close,
               Volume |-> b[i - Len(a)].Volume]] :
        a \in SeqsOver(SymbolBars, MaxSymbolRows),
        b \in SeqsOver(SymbolBars, MaxSymbolRows),
        o \in {<<"A", "B">>, <<"B", "A">>}} \ {<<>>}

\* The rows of one symbol, in table order.
symbol_rows(tbl, s) == SelectSeq(tbl, LAMBDA r : r.Ticker = s)

\* groupby("Ticker"): the row before row i in its group (0 when i is the
\* first row of its symbol) and the position of row i in its group
group_prev(tbl, i) ==
    LET same == {j \in 1..(i - 1) : tbl[j].Ticker = tbl[i].Ticker}
    IN  IF same = {} THEN 0 ELSE CHOOSE j \in same : \A k \in same : k <= j

group_rank(tbl, i) == Cardinality({j \in 1..i : tbl[j].Ticker = tbl[i].Ticker})

\* groupby("Ticker")["Close"].transform(ewm(span, adjust=False).mean()) on
\* row i, as the numerator over (span + 1)^(rank - 1): the first value of a
\* symbol is its Close, then y = ((span - 1) * y_prev + 2 * Close) / (span + 1)
RECURSIVE ewm_mean(_, _, _)
ewm_mean(tbl, i, span) ==
    IF group_prev(tbl, i) = 0 THEN tbl[i].Close
    ELSE (span - 1) * ewm_mean(tbl, group_prev(tbl, i), span)
            + 2 * tbl[i].Close * (span + 1) ^ (group_rank(tbl, i) - 2)

\* EMA_Fast and EMA_Slow of each row over one denominator
ema_table(tbl) ==
    [i \in 1..Len(tbl) |->
        [Ticker |-> tbl[i].Ticker,
         fast |-> ewm_mean(tbl, i, EMA_FAST_SPAN)
                     * (EMA_SLOW_SPAN + 1) ^ (group_rank(tbl, i) - 1),
         slow |-> ewm_mean(tbl, i, EMA_SLOW_SPAN)
                     * (EMA_FAST_SPAN + 1) ^ (group_rank(tbl, i) - 1)]]

\* df.groupby("Ticker")["Close"].pct_change(1)
grouped_return(tbl) ==
    [i \in 1..Len(tbl) |->
        IF group_prev(tbl, i) = 0 THEN [kind |-> "nan", v |-> 0]
        ELSE change(tbl[group_prev(tbl, i)].Close, tbl[i].Close)]

RECURSIVE Gcd(_, _)
Gcd(a, b) == IF b = 0 THEN a ELSE Gcd(b, a % b)

\* (Volume * Close).cumsum() / Volume.cumsum() over the rows of the table,
\* as a fraction in lowest terms
vwap(tbl) ==
    [i \in 1..Len(tbl) |->
        LET num == SumSeq([j \in 1..i |-> tbl[j].Volume * tbl[j].Close])
            den == SumSeq([j \in 1..i |-> tbl[j].Volume])
        IN  [num |-> num \div Gcd(num, den), den |-> den \div Gcd(num, den)]]

\* The cells data_preprocessing leaves on each row after df.ffill().bfill()
symbol_cells(tbl) ==
    LET return_1 == ffill_bfill(grouped_return(tbl))
        flags == cross_flags(ema_table(tbl))
    IN  [i \in 1..Len(tbl) |->
            [Ticker |-> tbl[i].Ticker, return_1 |-> return_1[i], VWAP |-> vwap(tbl)[i],
             EMA_Cross_Up |-> flags[i].up]]

(***************************************************************************)
(* Pure-function harness                                                   *)
(***************************************************************************)
NoRet == [done |-> FALSE, val |-> 0]

InitPure ==
    /\ call \in {[fn |-> "identify_reason", arg |-> r] : r \in Rows}
           \cup {[fn |-> "market", arg |-> s] : s \in SymbolStrings}
           \cup {[fn |-> "get_adaptive_contamination", arg |-> t] : t \in Tables}
           \cup {[fn |-> "adaptive_post_filter", arg |-> [tbl |-> tb, threshold |-> th]] :
                    tb \in ScoredTables(MaxScored), th \in ScoreThresholds}
           \cup {[fn |-> "compute_rule_flags", arg |-> df] : df \in FlagTables}
           \cup {[fn |-> "data_preprocessing", arg |-> s] : s \in BarSeries}
           \cup {[fn |-> "feature_matrix", arg |-> c] : c \in FeatureCloses}
           \cup {[fn |-> "rsi", arg |-> [impl |-> m, Close |-> c]] :
                    m \in Implementations, c \in RsiCloses}
           \cup {[fn |-> "wick_ratio", arg |-> df] : df \in SeqsOver(Candles, MaxCandles) \ {<<>>}}
           \cup {[fn |-> "cross_flags", arg |-> tbl] : tbl \in SeqsOver(CrossRows, MaxCross) \ {<<>>}}
           \cup {[fn |-> "parabolic_sar", arg |-> p] : p \in SarArgs}
           \cup {[fn |-> "symbol_cells", arg |-> tbl] : tbl \in SymbolTables}
    /\ ret = NoRet
    /\ paths = [m \in Markets |-> FALSE] /\ files = [m \in Markets |-> NoFile]
    /\ models_dir = OneVersion
    /\ cache = EmptyDict /\ versions = EmptyDict /\ hashes = EmptyDict
    /\ mmret = NoCall
    /\ IdleDetect

ApplyIdentifyReason ==
    /\ call.fn = "identify_reason" /\ ~ret.done
    /\ ret' = [done |-> TRUE, val |-> identify_reason(call.arg)]
    /\ UNCHANGED <<call, storeVars, detectVars, raceVars, batchVars>>

ApplyMarket ==
    /\ call.fn = "market" /\ ~ret.done
    /\ ret' = [done |-> TRUE,
               val |-> [incremental |-> incremental_market(call.arg),
                        scheduler |-> get_market_for_ticker(call.arg),
                        chart |-> derive_market_from_ticker(call.arg)]]
    /\ UNCHANGED <<call, storeVars, detectVars, raceVars, batchVars>>

ApplyContamination ==
    /\ call.fn = "get_adaptive_contamination" /\ ~ret.done
    /\ ret' = [done |-> TRUE, val |-> get_adaptive_contamination(call.arg)]
    /\ UNCHANGED <<call, storeVars, detectVars, raceVars, batchVars>>

ApplyPostFilter ==
    /\ call.fn = "adaptive_post_filter" /\ ~ret.done
    /\ ret' = [done |-> TRUE,
               val |-> adaptive_post_filter(call.arg.tbl,
                                            PreprocessedColumns \cup {"anomaly_score"},
                                            call.arg.threshold)]
    /\ UNCHANGED <<call, storeVars, detectVars, raceVars, batchVars>>

ApplyRuleFlags ==
    /\ call.fn = "compute_rule_flags" /\ ~ret.done
    /\ ret' = [done |-> TRUE, val |-> compute_rule_flags(call.arg)]
    /\ UNCHANGED <<call, storeVars, detectVars, raceVars, batchVars>>

ApplyPreprocessing ==
    /\ call.fn = "data_preprocessing" /\ ~ret.done
    /\ ret' = [done |-> TRUE, val |-> data_preprocessing_count(call.arg)]
    /\ UNCHANGED <<call, storeVars, detectVars, raceVars, batchVars>>

ApplyFeatureMatrix ==
    /\ call.fn = "feature_matrix" /\ ~ret.done
    /\ ret' = [done |-> TRUE, val |-> feature_matrix(call.arg)]
    /\ UNCHANGED <<call, storeVars, detectVars, raceVars, batchVars>>

ApplyRsi ==
    /\ call.fn = "rsi" /\ ~ret.done
    /\ ret' = [done |-> TRUE, val |-> rsi_rows(call.arg.impl, call.arg.Close)]
    /\ UNCHANGED <<call, storeVars, detectVars, raceVars, batchVars>>

ApplyWickRatio ==
    /\ call.fn = "wick_ratio" /\ ~ret.done
    /\ ret' = [done |-> TRUE, val |-> wick_ratio(call.arg)]
    /\ UNCHANGED <<call, storeVars, detectVars, raceVars, batchVars>>

ApplyCrossFlags ==
    /\ call.fn = "cross_flags" /\ ~ret.done
    /\ ret' = [done |-> TRUE, val |-> cross_flags(call.arg)]
    /\ UNCHANGED <<call, storeVars, detectVars, raceVars, batchVars>>

ApplyParabolicSar ==
    /\ call.fn = "parabolic_sar" /\ ~ret.done
    /\ ret' = [done |-> TRUE, val |-> calculate_parabolic_sar(call.arg)]
    /\ UNCHANGED <<call, storeVars, detectVars, raceVars, batchVars>>

ApplySymbolCells ==
    /\ call.fn = "symbol_cells" /\ ~ret.done
    /\ ret' = [done |-> TRUE, val |-> symbol_cells(call.arg)]
    /\ UNCHANGED <<call, storeVars, detectVars, raceVars, batchVars>>

NextPure ==
    \/ ApplyIdentifyReason
    \/ ApplyMarket
    \/ ApplyContamination
    \/ ApplyPostFilter
    \/ ApplyRuleFlags
    \/ ApplyPreprocessing
    \/ ApplyFeatureMatrix
    \/ ApplyRsi
    \/ ApplyWickRatio
    \/ ApplyCrossFlags
    \/ ApplyParabolicSar
    \/ ApplySymbolCells

SpecPure == InitPure /\ [][NextPure]_vars

(***************************************************************************)
(* Properties of the pure functions (checked under SpecPure)               *)
(***************************************************************************)
ReasonOrder ==
    << "Flash Crash", "Vol+Price Spike", "Double Bull Cross", "Double Bear Cross",
       "MACD Bull Cross", "MACD Bear Cross", "Absorption", "High Vol", "Price Shock",
       "VEI Break", "P+V Warning", "Price Z-Score", "Normal" >>

RuleHolds(label, row) ==
    LET f == row.flags
    IN  CASE label = "Flash Crash"       -> f["is_flash_crash"]
          [] label = "Vol+Price Spike"   -> f["is_vol_anomaly"] /\ f["is_price_anomaly"]
          [] label = "Double Bull Cross" -> f["MACD_Cross_Up"] /\ f["EMA_Cross_Up"]
          [] label = "Double Bear Cross" -> f["MACD_Cross_Down"] /\ f["EMA_Cross_Down"]
          [] label = "MACD Bull Cross"   -> f["MACD_Cross_Up"]
          [] label = "MACD Bear Cross"   -> f["MACD_Cross_Down"]
          [] label = "Absorption"        -> f["is_absorption"]
          [] label = "High Vol"          -> f["is_vol_anomaly"]
          [] label = "Price Shock"       -> f["is_price_anomaly"]
          [] label = "VEI Break"         -> f["is_vei_anomaly"]
          [] label = "P+V Warning"       -> f["is_price_volume_warning"]
          [] label = "Price Z-Score"     -> ~row.Close_Z.nan /\
                                            (row.Close_Z.v > 2 \/ row.Close_Z.v < -2)
          [] label = "Normal"            -> TRUE

\* C1: for every combination of the rule flags and every Close_Z,
\* identify_reason returns exactly one of the thirteen labels, and it is the
\* label of the first rule, in the order Flash Crash, Vol+Price Spike, Double
\* Bull Cross, Double Bear Cross, MACD Bull Cross, MACD Bear Cross, Absorption,
\* High Vol, Price Shock, VEI Break, P+V Warning, Price Z-Score, Normal, whose
\* condition the bar satisfies; no later rule overrides an earlier match.
C1_FirstMatchWins ==
    (call.fn = "identify_reason" /\ ret.done) =>
        \E i \in 1..Len(ReasonOrder) :
            /\ ret.val = ReasonOrder[i]
            /\ RuleHolds(ReasonOrder[i], call.arg)
            /\ \A j \in 1..(i - 1) : ~RuleHolds(ReasonOrder[j], call.arg)

\* A bar with both is_flash_crash and MACD_Cross_Up has been classified.
C1_Witness ==
    /\ call.fn = "identify_reason" /\ ret.done
    /\ call.arg.flags["is_flash_crash"] /\ call.arg.flags["MACD_Cross_Up"]
    /\ ret.val = "Flash Crash"

SuffixMarket(s) ==
    LET n == Len(s)
    IN  IF n >= 2 /\ s[n - 1] = "." /\ s[n] = "T" THEN "JP"
        ELSE IF n >= 3 /\ s[n - 2] = "." /\ s[n - 1] = "B" /\ s[n] = "K" THEN "TH"
        ELSE "US"

\* C8: for every symbol the market key is JP when the symbol ends in '.T', TH
\* when it ends in '.BK' and US otherwise, and detect_anomalies_incremental,
\* get_market_for_ticker and _derive_market_from_ticker agree on it.
C8_MarketsAgree ==
    (call.fn = "market" /\ ret.done) =>
        /\ ret.val.incremental = SuffixMarket(call.arg)
        /\ ret.val.scheduler = SuffixMarket(call.arg)
        /\ ret.val.chart = SuffixMarket(call.arg)

\* The part of C8 the scorer and the scheduler satisfy: both follow the
\* suffix rule on every symbol.
C8_ScorerAndSchedulerAgree ==
    (call.fn = "market" /\ ret.done) =>
        /\ ret.val.incremental = SuffixMarket(call.arg)
        /\ ret.val.scheduler = SuffixMarket(call.arg)

\* A symbol with a lower-case '.t' suffix has been derived.
C8_Witness ==
    /\ call.fn = "market" /\ ret.done
    /\ call.arg = <<"A", ".", "t">>
    /\ ret.val.chart = "JP" /\ ret.val.incremental = "US"

\* The sample variance of the 1-step returns of closes c, by pairwise
\* differences: sum over i < j of (r_i - r_j)^2 / (n (n - 1)).
ReturnRows(c) == {i \in 1..(Len(c) - 1) : ~(c[i] = 0 /\ c[i + 1] = 0)}
ReturnAt(c, i) == ((c[i + 1] - c[i]) * ReturnScale) \div c[i]
VolatilityDefined(c) ==
    /\ Cardinality(ReturnRows(c)) >= 2
    /\ \A i \in ReturnRows(c) : c[i] # 0
SquaredDiff(c, p) ==
    (ReturnAt(c, p[1]) - ReturnAt(c, p[2])) * (ReturnAt(c, p[1]) - ReturnAt(c, p[2]))
RECURSIVE SumSquaredDiffs(_, _)
SumSquaredDiffs(c, P) ==
    IF P = {} THEN 0
    ELSE LET p == CHOOSE q \in P : TRUE
         IN  SquaredDiff(c, p) + SumSquaredDiffs(c, P \ {p})
PairSquares(c) ==
    SumSquaredDiffs(c, {p \in ReturnRows(c) \X ReturnRows(c) : p[1] < p[2]})
PairCount(c) == Cardinality(ReturnRows(c)) * (Cardinality(ReturnRows(c)) - 1)
TwentyPercent == ReturnScale \div 5

VolatilityAbove20(t) ==
    /\ t.hasClose /\ Len(t.Close) > 0 /\ VolatilityDefined(t.Close)
    /\ PairSquares(t.Close) > TwentyPercent * TwentyPercent * PairCount(t.Close)

VolatilityExactly20(t) ==
    /\ t.hasClose /\ Len(t.Close) > 0 /\ VolatilityDefined(t.Close)
    /\ PairSquares(t.Close) = TwentyPercent * TwentyPercent * PairCount(t.Close)

\* C9: get_adaptive_contamination returns 0.10 exactly when the standard
\* deviation of the 1-step close returns is strictly greater than 0.20 and
\* 0.05 in every other case (volatility exactly 0.20, lower, undefined, an
\* empty table, a table without Close); the result is never below 0.05.
C9_ContaminationBuckets ==
    (call.fn = "get_adaptive_contamination" /\ ret.done) =>
        /\ ret.val = (IF VolatilityAbove20(call.arg) THEN 10 ELSE 5)
        /\ ret.val >= 5

\* A table whose return volatility is exactly 0.20 has been bucketed.
C9_Witness ==
    /\ call.fn = "get_adaptive_contamination" /\ ret.done
    /\ VolatilityExactly20(call.arg)
    /\ ret.val = 5

\* A table whose return volatility is above 0.20 has been bucketed.
C9_WitnessHigh ==
    /\ call.fn = "get_adaptive_contamination" /\ ret.done
    /\ VolatilityAbove20(call.arg)
    /\ ret.val = 10

(***************************************************************************)
(* Properties of the model store (checked under SpecModel)                 *)
(***************************************************************************)
FirstSixteen(h) == [i \in 1..16 |-> h[i]]

\* C7: after any sequence of get_model, get_version, get_full_hash and
\* clear_cache calls the model cache, the version cache and the hash cache
\* hold the same markets; for every cached market the version id is the first
\* 16 hex characters of the cached full hash, which is the hash of the file
\* content the cached model was loaded from; and a call whose load failed
\* leaves the market in none of the three caches.
C7_CachesConsistent ==
    /\ DOMAIN cache = DOMAIN versions
    /\ DOMAIN cache = DOMAIN hashes
    /\ \A m \in DOMAIN cache :
          /\ Len(hashes[m]) = 64
          /\ versions[m] = FirstSixteen(hashes[m])
          /\ hashes[m] = Sha256(cache[m])
    /\ mmret.how = "failed" =>
          UpperMarket(mmret.market) \notin (DOMAIN cache \cup DOMAIN versions \cup DOMAIN hashes)

\* Two markets are cached, one of them loaded from a file that has since
\* been replaced, and get_version has just answered from the cache.
C7_Witness ==
    /\ Cardinality(DOMAIN cache) >= 2
    /\ \E m \in DOMAIN cache : files[m].exists /\ files[m].content # cache[m]
    /\ mmret.fn = "get_version" /\ mmret.how = "none"
    /\ mmret.text = versions[UpperMarket(mmret.market)]

\* A load has failed on a file that exists but cannot be unpickled.
C7_WitnessFailedLoad ==
    /\ mmret.fn = "get_model" /\ mmret.how = "failed"
    /\ mmret.market \in Markets /\ files[mmret.market].exists

(***************************************************************************)
(* Properties of the detection operations (checked under Spec)             *)
(***************************************************************************)
RecordPositions(t, ts) ==
    {i \in 1..Len(anomalies) : anomalies[i].ticker = t /\ anomalies[i].datetime = ts}

\* C2: after any sequence of detection runs over overlapping windows of a
\* symbol, db.anomalies holds at most one record per (symbol, timestamp).
C2_AtMostOneRecord ==
    \A i, j \in 1..Len(anomalies) :
        (anomalies[i].ticker = anomalies[j].ticker
         /\ anomalies[i].datetime = anomalies[j].datetime) => i = j

\* Two records of one (symbol, timestamp), the later one written by the
\* batch insert of detect_anomalies_incremental.
C2_DuplicateByBatchInsert ==
    \E i, j \in 1..Len(anomalies) :
        /\ i < j
        /\ anomalies[i].ticker = anomalies[j].ticker
        /\ anomalies[i].datetime = anomalies[j].datetime
        /\ anomalies[j].fields = IncrementalFields

\* The records detect_anomalies_adaptive wrote never repeat a (symbol,
\* timestamp) that was in the collection when it wrote them.
AdaptiveNeverDuplicates ==
    \A i, j \in 1..Len(anomalies) :
        (i < j /\ anomalies[j].fields = AdaptiveFields
         /\ anomalies[i].ticker = anomalies[j].ticker)
        => anomalies[i].datetime # anomalies[j].datetime

\* C3: running the same detection operation twice in sequence for a symbol
\* while the provider returns the same bars leaves as many records after the
\* second run as after the first, whatever the outcome of the first run.
C3_SecondRunAddsNothing ==
    [][(/\ calls' = calls + 1
        /\ last.op \in {"incremental", "adaptive"}
        /\ last'.op = last.op /\ last'.ticker = last.ticker
        /\ last'.loaded = last.loaded)
       => Len(anomalies') = Len(anomalies)]_vars

\* A second incremental run over the bars of a first one that had failed
\* has left more than one record of a (symbol, timestamp).
C3_RerunAfterFailure ==
    /\ last.op = "incremental" /\ last.outcome = "ok" /\ calls = 2
    /\ Len(runs) = 2 /\ runs[1].status = "failed"
    /\ ~C2_AtMostOneRecord

\* A second detect_anomalies_incremental over the same bars adds nothing when
\* the first one completed and its metadata was saved.
SecondRunAfterSavedMetadata ==
    [][(/\ calls' = calls + 1
        /\ last.op = "incremental" /\ last'.op = "incremental"
        /\ last'.ticker = last.ticker /\ last'.loaded = last.loaded
        /\ last.outcome \in {"ok", "already_detected"}
        /\ meta[last.ticker].exists
        /\ meta[last.ticker].last_detected_timestamp >= last.loaded)
       => Len(anomalies') = Len(anomalies)]_vars

RequiredFields ==
    {"anomaly_score", "reason", "model_version", "model_hash", "detection_run_id", "sent"}

\* C5: every record in db.anomalies was created with sent = false and
\* carries an anomaly score, a reason, a model version/hash and a
\* detection-run identifier, whichever path wrote it.
C5_RecordsCarryMetadata ==
    \A i \in 1..Len(anomalies) :
        /\ anomalies[i].sent = FALSE
        /\ RequiredFields \subseteq anomalies[i].fields

\* A record written by detect_anomalies_adaptive is in the collection.
C5_AdaptiveRecord ==
    \E i \in 1..Len(anomalies) :
        /\ anomalies[i].fields = AdaptiveFields
        /\ anomalies[i].detection_run_id = NoRunId

\* Every record is created unsent with a reason, and the records of the
\* fixed-model path carry all the metadata.
UnsentWithReason ==
    \A i \in 1..Len(anomalies) :
        /\ anomalies[i].sent = FALSE
        /\ "reason" \in anomalies[i].fields
        /\ anomalies[i].fields = IncrementalFields =>
               RequiredFields \subseteq anomalies[i].fields

\* The model store has no model for the symbol's market.
ModelStoreHasNone(t) ==
    LET m == SuffixMarket(t)
    IN  /\ m \notin DOMAIN cache
        /\ (~paths[m] \/ ~files[m].exists \/ ~files[m].loadable)

\* C6: when the model store returns None for the symbol's market,
\* detect_anomalies_incremental returns an error result without raising and
\* the call leaves db.detection_runs, db.anomalies and db.detection_metadata
\* as they were.
C6_NoModelNoWrites ==
    [][(calls' = calls + 1 /\ last'.op = "incremental" /\ ModelStoreHasNone(last'.ticker))
       => /\ last'.outcome = "model_unavailable" /\ ~last'.raised
          /\ runs' = runs /\ anomalies' = anomalies /\ meta' = meta]_vars

\* An incremental call found no model although the provider has bars the
\* model would have flagged, after an adaptive run had written records.
C6_Witness ==
    /\ last.op = "incremental" /\ last.outcome = "model_unavailable"
    /\ ModelStoreHasNone(last.ticker)
    /\ anomaly_rows(last.ticker, bars[last.ticker]) # <<>>
    /\ Len(anomalies) > 0 /\ runs = <<>>

\* Rows of a table of n bars on which every core feature is defined.
CompleteRows(n) == IF n >= ATR_MIN_PERIODS THEN n ELSE 0

\* C10: whenever fewer than ADAPTIVE_MIN_SAMPLES complete feature rows exist
\* for the symbol (the provider's empty answer included),
\* detect_anomalies_adaptive fits no model, returns an empty result and
\* inserts no record.
C10_TooFewSamplesReturnsEmpty ==
    [][(/\ calls' = calls + 1 /\ last'.op = "adaptive"
        /\ CompleteRows(last'.loaded) < ADAPTIVE_MIN_SAMPLES)
       => /\ ~last'.fitted /\ anomalies' = anomalies
          /\ last'.returned = 0 /\ ~last'.raised]_vars

\* An adaptive call over 19 bars raised at the selection of the configured
\* feature columns.
C10_RaisedBeforeGate ==
    /\ last.op = "adaptive" /\ last.outcome = "raised" /\ last.raised
    /\ last.loaded = ADAPTIVE_MIN_SAMPLES - 1 /\ ~featuresOK

\* Below the sample gate detect_anomalies_adaptive fits no model and inserts
\* nothing, and it returns an empty result when the configured feature
\* columns are on the table.
SampleGate ==
    [][(/\ calls' = calls + 1 /\ last'.op = "adaptive"
        /\ CompleteRows(last'.loaded) < ADAPTIVE_MIN_SAMPLES)
       => /\ ~last'.fitted /\ anomalies' = anomalies /\ last'.returned = 0
          /\ (featuresOK \/ last'.loaded < ATR_MIN_PERIODS) => ~last'.raised]_vars

(***************************************************************************)
(* Properties of concurrent adaptive runs (checked under SpecRace)         *)
(***************************************************************************)
\* Both runs cover row ts of ticker t and have finished.
BothRunsSaved(t, ts) ==
    /\ \A th \in ThreadIds : threads[th].pc = "done" /\ threads[th].ticker = t
    /\ adaptive_steps(t, "none", 0).outcome = "ok"
    /\ ts \in outliers[t] /\ ts <= bars[t]

\* C4: when two detection runs covering the same (symbol, timestamp) execute
\* concurrently, then for every interleaving of their count_documents and
\* insert steps the collection ends with exactly one record for that
\* (symbol, timestamp).
C4_ExactlyOneRecord ==
    \A t \in Tickers : \A ts \in 1..MaxBars :
        BothRunsSaved(t, ts) => Cardinality(RecordPositions(t, ts)) = 1

\* Both runs have finished and a row they cover has one record per run.
C4_BothInserted ==
    \E t \in Tickers : \E ts \in 1..MaxBars :
        BothRunsSaved(t, ts) /\ Cardinality(RecordPositions(t, ts)) = NumThreads

\* Every row both runs cover ends with at least one record and at most one
\* per run.
AtLeastOneAtMostOnePerRun ==
    \A t \in Tickers : \A ts \in 1..MaxBars :
        BothRunsSaved(t, ts) => Cardinality(RecordPositions(t, ts)) \in 1..NumThreads

(***************************************************************************)
(* Properties of the feature pipeline and the filters (checked under       *)
(* SpecPure)                                                               *)
(***************************************************************************)
\* C11: every anomaly detect_anomalies_adaptive returns and persists is a
\* bar the fitted model labelled anomalous whose close-price z-score has
\* |z| >= ADAPTIVE_ZSCORE_THRESHOLD and, when ADAPTIVE_SCORE_THRESHOLD is
\* configured, whose anomaly score is <= that threshold.
C11_ReturnedPassFilters ==
    (call.fn = "adaptive_post_filter" /\ ret.done) =>
        \A k \in 1..Len(ret.val) :
            LET r == call.arg.tbl[ret.val[k]]
            IN  /\ r.label = -1
                /\ (r.Close_Z >= 15 \/ r.Close_Z <= -15)
                /\ call.arg.threshold.set =>
                       r.anomaly_score <= call.arg.threshold.v

\* A flagged row with z-score 1.0 was returned although a flagged row with
\* z-score -2.0 stands beside it.
C11_WeakDetectionKept ==
    /\ call.fn = "adaptive_post_filter" /\ ret.done
    /\ Len(call.arg.tbl) = 2 /\ ret.val = <<1, 2>>
    /\ call.arg.tbl[1].Close_Z = 10 /\ call.arg.tbl[2].Close_Z = -20

\* The post-filters never add a detection: the returned rows are flagged
\* rows in table order, each within the configured score threshold.
PostFiltersOnlyRemove ==
    (call.fn = "adaptive_post_filter" /\ ret.done) =>
        /\ \A k \in 1..Len(ret.val) :
              /\ ret.val[k] \in 1..Len(call.arg.tbl)
              /\ call.arg.tbl[ret.val[k]].label = -1
              /\ call.arg.threshold.set =>
                     call.arg.tbl[ret.val[k]].anomaly_score <= call.arg.threshold.v
        /\ \A k \in 1..(Len(ret.val) - 1) : ret.val[k] < ret.val[k + 1]

(***************************************************************************)
(* Properties of load_dataset (checked under SpecLoad and SpecLoadFair)    *)
(***************************************************************************)
Positions == 1..Len(loader.tickers)

\* Delays 1s then 2s: the delays before the retries of one ticker.
BackoffDelays == <<1, 2>>

\* What the retry loop has done for position i is within the retry policy.
WithinRetryPolicy(i) ==
    LET h == loader.history[i]
        w == loader.waits[i]
    IN  /\ Len(h) <= 3
        /\ \A k \in 1..(Len(h) - 1) : h[k] = "rate_limit"
        /\ Len(w) <= 2 /\ w = SubSeq(BackoffDelays, 1, Len(w))
        /\ \A k \in 1..(Len(w) - 1) : w[k] < w[k + 1]
        /\ ((i < loader.i \/ loader.pc = "done") /\ loader.tickers[i] # "") =>
              /\ Len(h) >= 1 /\ Len(w) = Len(h) - 1
              /\ (Len(h) = 3 /\ h[3] # "data") =>
                     Cardinality({k \in 1..Len(loader.failed) : loader.failed[k] = i}) = 1

FinalOutcome(i) == loader.history[i][Len(loader.history[i])]

TimesFailed(i) == Cardinality({k \in 1..Len(loader.failed) : loader.failed[k] = i})

\* C13: for every list of symbols and every per-symbol provider outcome,
\* load_dataset returns the rows of exactly the symbols whose download
\* yielded valid data, in list order; a failing symbol contributes no rows,
\* is recorded as failed exactly once, and every later symbol of the list
\* is still attempted.
C13_PartialFailures ==
    loader.pc = "done" =>
        /\ \A i \in Positions : loader.tickers[i] # "" => Len(loader.history[i]) >= 1
        /\ loader.returned =
              SelectSeq([i \in Positions |-> i],
                        LAMBDA i : loader.tickers[i] # "" /\ FinalOutcome(i) = "data")
        /\ \A i \in Positions :
              TimesFailed(i) =
                 IF loader.tickers[i] # "" /\ FinalOutcome(i) # "data" THEN 1 ELSE 0

\* load_dataset returned the second ticker's rows after the first one's
\* download raised an error that is not a rate limit.
C13_Witness ==
    /\ loader.pc = "done" /\ Len(loader.tickers) = 2
    /\ loader.history[1] = <<"error">> /\ loader.history[2] = <<"rate_limit", "data">>
    /\ loader.failed = <<1>> /\ loader.returned = <<2>>

(***************************************************************************)
(* Properties of the batch scan (checked under SpecJob)                    *)
(***************************************************************************)
\* C14: in a batch scan a failure while processing one symbol does not abort
\* the others: when job_for_market is done, every symbol of every batch has
\* been processed.
C14_FailuresIsolated ==
    job.pc = "done" => \A i \in 1..job.n : job.seen[i] # "pending"

\* The scan is over, the first symbol of a batch raised and the symbol after
\* it was never loaded, while the next batch was processed.
C14_RestOfBatchSkipped ==
    /\ job.pc = "done" /\ job.n = batch_size + 1
    /\ job.seen[1] = "KeyError" /\ job.seen[2] = "pending"
    /\ job.seen[batch_size + 1] = "empty_after_preprocessing"

\* A symbol without data, or with too few bars, does not stop the scan, and
\* an exception stops only the batch it occurs in: the first symbol of every
\* batch is processed, and a symbol is left out only behind a symbol of its
\* batch that raised.
FailureStopsOnlyItsBatch ==
    job.pc = "done" =>
        \A i \in 1..job.n :
            /\ (i - 1) % batch_size = 0 => job.seen[i] # "pending"
            /\ job.seen[i] = "pending" =>
                  \E k \in 1..(i - 1) :
                      /\ (k - 1) \div batch_size = (i - 1) \div batch_size
                      /\ job.seen[k] = "KeyError"

\* No scan persists an anomaly: every symbol with rows raises.
ScanPersistsNothing == job.persisted = {}

(***************************************************************************)
(* Properties of the stored reasons (checked under Spec)                   *)
(***************************************************************************)
HierarchyLabels == {ReasonOrder[k] : k \in 1..Len(ReasonOrder)}

\* C15: the table handed to the classifier carries every rule flag it
\* reads, so the reason stored with every anomaly persisted by
\* detect_anomalies_incremental or detect_anomalies_adaptive is a label of
\* the priority hierarchy, never a placeholder of a failed classification.
C15_StoredReasonIsLabel ==
    \A i \in 1..Len(anomalies) : anomalies[i].reason \in HierarchyLabels

\* Both paths have stored their placeholder: the classifier raised on the
\* missing is_flash_crash column.
C15_PlaceholderStored ==
    /\ identify_reason(PipelineRow) = KeyError
    /\ \E i \in 1..Len(anomalies) :
          anomalies[i].fields = IncrementalFields
          /\ anomalies[i].reason = "System anomaly detected"
    /\ \E i \in 1..Len(anomalies) :
          anomalies[i].fields = AdaptiveFields /\ anomalies[i].reason = "Adaptive"

\* The flags the classifier reads that the pipeline does not put on the table.
MissingFlags == FlagNames \ PreprocessedColumns

\* Every persisted reason is the placeholder of the path that wrote it, and
\* three flags are missing from the table.
ReasonsArePlaceholders ==
    /\ MissingFlags = {"is_flash_crash", "EMA_Cross_Down", "is_price_volume_warning"}
    /\ PipelineFlagNames = FlagNames \cap PreprocessedColumns
    /\ \A i \in 1..Len(anomalies) :
          anomalies[i].reason = IF anomalies[i].fields = IncrementalFields
                                THEN "System anomaly detected" ELSE "Adaptive"

(***************************************************************************)
(* Properties of compute_rule_flags (checked under SpecPure)               *)
(***************************************************************************)
\* The flag column is on the returned table and false on every row.
FlagPresentAndFalse(flag) ==
    /\ flag \in ret.val.cols
    /\ Len(ret.val.flags) = Len(call.arg.rows)
    /\ \A i \in 1..Len(ret.val.flags) : ~ret.val.flags[i][flag]

\* C16: compute_rule_flags never raises for any input table (None, empty, or
\* missing any subset of Vol_Z, VEI, Price_Shock, Close), and when an input
\* column is missing from a table with rows the corresponding flag column
\* is on the returned table and false on every row.
C16_MissingInputsGiveFalseFlags ==
    (call.fn = "compute_rule_flags" /\ ret.done) =>
        /\ ~ret.val.raised
        /\ (~call.arg.none /\ call.arg.rows # <<>>) =>
              /\ "Vol_Z" \notin call.arg.cols =>
                    FlagPresentAndFalse("is_vol_anomaly")
                    /\ FlagPresentAndFalse("is_absorption")
              /\ "VEI" \notin call.arg.cols => FlagPresentAndFalse("is_vei_anomaly")
              /\ ("Price_Shock" \notin call.arg.cols /\ "Close" \notin call.arg.cols) =>
                    FlagPresentAndFalse("is_price_anomaly")

\* A table with rows and without Price_Shock and Close came back without any
\* flag column, a row with Vol_Z 3.5 included.
C16_NoFlagColumns ==
    /\ call.fn = "compute_rule_flags" /\ ret.done
    /\ call.arg.cols = {"Vol_Z", "VEI"} /\ Len(call.arg.rows) = 2
    /\ call.arg.rows[1].Vol_Z = 35
    /\ ret.val.cols \cap RuleFlagColumns = {}

\* compute_rule_flags never raises, and when the table has rows and a
\* Price_Shock or a Close column it returns every flag column, with the
\* flags of a missing Vol_Z or VEI false on every row.
FlagsWhenPriceShockAvailable ==
    (call.fn = "compute_rule_flags" /\ ret.done) =>
        /\ ~ret.val.raised
        /\ (~call.arg.none /\ call.arg.rows # <<>>
            /\ call.arg.cols \cap {"Price_Shock", "Close"} # {}) =>
              /\ RuleFlagColumns \subseteq ret.val.cols
              /\ "Vol_Z" \notin call.arg.cols =>
                    FlagPresentAndFalse("is_vol_anomaly")
                    /\ FlagPresentAndFalse("is_absorption")
                    /\ FlagPresentAndFalse("Price_warning")
              /\ "VEI" \notin call.arg.cols => FlagPresentAndFalse("is_vei_anomaly")

(***************************************************************************)
(* Properties of data_preprocessing's row count (checked under SpecPure)   *)
(***************************************************************************)
\* C17: for a series of n >= 1 bars of which k have a missing OHLCV value,
\* data_preprocessing returns exactly n - k rows: rows with too little
\* history (the first 13 bars, or a series shorter than 14) are filled, not
\* dropped.
C17_RowsAreBarsWithoutMissing ==
    (call.fn = "data_preprocessing" /\ ret.done) =>
        ret.val = call.arg.n - Cardinality(call.arg.missing)

\* A series of 13 complete bars came back with no row.
C17_ShortSeriesDropped ==
    /\ call.fn = "data_preprocessing" /\ ret.done
    /\ call.arg.n = 13 /\ call.arg.missing = {}
    /\ ret.val = 0

\* data_preprocessing returns n - k rows when at least 14 bars are complete
\* and no row otherwise.
RowsKeptFromFourteenBars ==
    (call.fn = "data_preprocessing" /\ ret.done) =>
        LET m == call.arg.n - Cardinality(call.arg.missing)
        IN  /\ ret.val = (IF m >= ATR_MIN_PERIODS THEN m ELSE 0)
            /\ ret.val = data_preprocessing_rows(m)

(***************************************************************************)
(* Properties of the feature matrix (checked under SpecPure)               *)
(***************************************************************************)
\* C18: no cell of the feature matrix handed to predict or fit is infinite
\* or undefined, a zero close followed by a non-zero close included:
\* infinite values are turned into undefined ones and filled.
C18_MatrixIsFinite ==
    (call.fn = "feature_matrix" /\ ret.done) =>
        \A i \in 1..Len(ret.val) : \A k \in 1..Len(ReturnColumns) :
            ret.val[i][k].kind = "num"

\* The series 0, 25, 25, ... reached the matrix with every row kept and an
\* infinite return_1 on its second row.
C18_InfiniteReturn ==
    /\ call.fn = "feature_matrix" /\ ret.done
    /\ call.arg[1] = 0 /\ call.arg[2] = 25
    /\ Len(ret.val) = Len(call.arg)
    /\ ret.val[2][1].kind = "inf"

\* No cell of the matrix is undefined, and every cell is finite when no bar
\* of the series closes at zero.
MatrixFiniteWithoutZeroClose ==
    (call.fn = "feature_matrix" /\ ret.done) =>
        /\ \A i \in 1..Len(ret.val) : \A k \in 1..Len(ReturnColumns) :
               ret.val[i][k].kind # "nan"
        /\ (\A i \in 1..Len(call.arg) : call.arg[i] # 0) =>
               /\ Len(ret.val) = Len(call.arg)
               /\ \A i \in 1..Len(ret.val) : \A k \in 1..Len(ReturnColumns) :
                      ret.val[i][k].kind = "num"

(***************************************************************************)
(* Properties of the RSI column (checked under SpecPure)                   *)
(***************************************************************************)
\* 100 - 100 / (1 + rs) lies in [0, 100] exactly when rs >= 0.
RsiInRange(cell) == cell.kind = "num" /\ rs_sign(cell) >= 0

\* C19: every row data_preprocessing returns has an RSI that is defined and
\* lies in [0, 100], in train_service and in train.py alike.
C19_RsiDefinedAndBounded ==
    (call.fn = "rsi" /\ ret.done) => \A i \in 1..Len(ret.val) : RsiInRange(ret.val[i])

\* train.py returned the four rows of a four-bar series, RSI undefined on
\* each of them.
C19_UndefinedRsiReturned ==
    /\ call.fn = "rsi" /\ ret.done
    /\ call.arg.impl = "train" /\ call.arg.Close = <<20, 24, 25, 24>>
    /\ Len(ret.val) = 4
    /\ \A i \in 1..4 : ret.val[i].kind = "nan"

\* The RSI is defined and in range on every row train_service returns, and
\* on every row train.py returns for a series of more than 14 bars.
RsiDefinedWithEnoughBars ==
    (call.fn = "rsi" /\ ret.done
     /\ (call.arg.impl = "train_service" \/ Len(call.arg.Close) > RSI_PERIOD)) =>
        \A i \in 1..Len(ret.val) : RsiInRange(ret.val[i])

\* train_service returned the rows of a series of 14 bars or more with the
\* RSI of the first row filled from the second.
RsiFilledFromSecondRow ==
    /\ call.fn = "rsi" /\ ret.done
    /\ call.arg.impl = "train_service" /\ Len(ret.val) >= ATR_MIN_PERIODS
    /\ ret.val[1] = ret.val[2] /\ ret.val[1].gain

(***************************************************************************)
(* Properties of the wick ratio (checked under SpecPure)                   *)
(***************************************************************************)
\* The wick ratio of a bar with a body, clipped
ValidRatio(df, j) ==
    clip_upper((df[j].wicks * WickScale) \div df[j].body, WICK_RATIO_CAP * WickScale)

\* The value a filled neighbour gives row i: that of the nearest earlier
\* bar with a body, else that of the first later one, else 0.
NeighbourRatio(df, i) ==
    LET earlier == {j \in 1..i : df[j].body # 0}
        later == {j \in i..Len(df) : df[j].body # 0}
    IN  IF earlier # {} THEN ValidRatio(df, CHOOSE j \in earlier : \A k \in earlier : k <= j)
        ELSE IF later # {} THEN ValidRatio(df, CHOOSE j \in later : \A k \in later : j <= k)
        ELSE 0

\* C20: at every index with body == 0 the wick_ratio is finite, at most 20
\* and equal to a filled neighbour: the nearest earlier valid value, or for
\* leading bars without body the first later valid value; it is 0 for want
\* of a neighbour only when no bar of the series has a body.
C20_ZeroBodyTakesNeighbour ==
    (call.fn = "wick_ratio" /\ ret.done) =>
        \A i \in 1..Len(call.arg) :
            call.arg[i].body = 0 =>
                /\ ret.val[i].kind = "num"
                /\ ret.val[i].v <= WICK_RATIO_CAP * WickScale
                /\ ret.val[i].v = NeighbourRatio(call.arg, i)

\* A leading bar without body got 0 although the next bar has the ratio 3.
C20_LeadingZeroBodyGetsZero ==
    /\ call.fn = "wick_ratio" /\ ret.done
    /\ Len(call.arg) = 2
    /\ call.arg[1].body = 0 /\ call.arg[2] = [body |-> 1, wicks |-> 3]
    /\ ret.val[1].v = 0 /\ ret.val[2].v = 3 * WickScale

\* At every index with body == 0 the wick_ratio is finite, at most 20, and
\* equal to the nearest earlier valid value, or 0 when no earlier bar has a
\* body.
ZeroBodyTakesEarlierOrZero ==
    (call.fn = "wick_ratio" /\ ret.done) =>
        \A i \in 1..Len(call.arg) :
            call.arg[i].body = 0 =>
                /\ ret.val[i].kind = "num"
                /\ ret.val[i].v <= WICK_RATIO_CAP * WickScale
                /\ ret.val[i].v = (IF \E j \in 1..i : call.arg[j].body # 0
                                   THEN NeighbourRatio(call.arg, i) ELSE 0)

\* A bar without body took the capped ratio of the bar before it.
ZeroBodyTakesCappedRatio ==
    /\ call.fn = "wick_ratio" /\ ret.done
    /\ Len(call.arg) = 2
    /\ call.arg[1] = [body |-> 1, wicks |-> 50] /\ call.arg[2].body = 0
    /\ ret.val[2].v = WICK_RATIO_CAP * WickScale

(***************************************************************************)
(* Properties of the crossover flags (checked under SpecPure)              *)
(***************************************************************************)
\* The fast series moves from <= to > the slow one at bar i.
CrossesUp(tbl, i) ==
    i > 1 /\ tbl[i].fast > tbl[i].slow /\ tbl[i - 1].fast <= tbl[i - 1].slow
CrossesDown(tbl, i) ==
    i > 1 /\ tbl[i].fast < tbl[i].slow /\ tbl[i - 1].fast >= tbl[i - 1].slow

FlagsFromVolZ ==
    /\ call.fn = "compute_rule_flags" /\ ret.done
    /\ ~call.arg.none /\ "Vol_Z" \in call.arg.cols
    /\ ret.val.flags # <<>>

\* C22: is_vol_anomaly is true on a bar exactly when the bar's volume
\* z-score is >= 3.0: a z-score of exactly 3.0 is flagged.
C22_VolAnomalyFromThree ==
    FlagsFromVolZ =>
        \A i \in 1..Len(ret.val.flags) :
            ret.val.flags[i].is_vol_anomaly <=> call.arg.rows[i].Vol_Z >= 30

\* A bar with a volume z-score of exactly 3.0 was not flagged, the bar after
\* it with 3.5 was.
C22_ExactlyThreeNotFlagged ==
    /\ FlagsFromVolZ /\ Len(call.arg.rows) = 2
    /\ call.arg.rows[1].Vol_Z = 30 /\ call.arg.rows[2].Vol_Z = 35
    /\ ~ret.val.flags[1].is_vol_anomaly /\ ret.val.flags[2].is_vol_anomaly

\* is_vol_anomaly is true exactly when the volume z-score is above 3.0.
VolAnomalyAboveThree ==
    FlagsFromVolZ =>
        \A i \in 1..Len(ret.val.flags) :
            ret.val.flags[i].is_vol_anomaly <=> call.arg.rows[i].Vol_Z > 30

\* compute_rule_flags assigned the flags of a table that has a Price_Shock
\* column; the table has fewer than 20 rows, so the standard deviation of
\* the trailing 20 returns is defined on none of its bars.
FlagsFromPriceShock ==
    /\ call.fn = "compute_rule_flags" /\ ret.done
    /\ ~call.arg.none /\ "Price_Shock" \in call.arg.cols
    /\ ret.val.flags # <<>>

\* C23: is_price_anomaly is true exactly when |return| > 2.5 x the standard
\* deviation of the trailing 20 returns and is_absorption exactly when the
\* volume z-score is > 2.0 and |return| < 0.5 x that deviation; on a bar
\* where the deviation is not yet defined neither flag is true, and the two
\* flags are never both true on one bar.
C23_NoFlagWithoutDeviation ==
    FlagsFromPriceShock =>
        \A i \in 1..Len(ret.val.flags) :
            /\ ~ret.val.flags[i].is_price_anomaly
            /\ ~ret.val.flags[i].is_absorption

\* The first bar of a table, with a return of 0.03 and no deviation defined,
\* was flagged as a price anomaly.
C23_FlaggedWithoutDeviation ==
    /\ FlagsFromPriceShock
    /\ call.arg.rows[1].Price_Shock = 3
    /\ ret.val.flags[1].is_price_anomaly

\* Where the deviation is not defined is_price_anomaly is true exactly on
\* the bars with a non-zero return and is_absorption is never true, so the
\* two flags are never both true.
PriceAnomalyOnAnyMove ==
    FlagsFromPriceShock =>
        \A i \in 1..Len(ret.val.flags) :
            /\ ret.val.flags[i].is_price_anomaly <=> call.arg.rows[i].Price_Shock # 0
            /\ ~ret.val.flags[i].is_absorption

(***************************************************************************)
(* Properties of the parabolic SAR (checked under SpecPure)                *)
(***************************************************************************)
\* The trend flips at bar i.
Flips(i) == ret.val[i].trend # ret.val[i - 1].trend

\* Bar i sets a new extreme point in the trend it continues.
NewExtreme(i) ==
    /\ ~Flips(i)
    /\ IF ret.val[i].trend = 1
       THEN call.arg.bars[i].high * SarScale > ret.val[i - 1].ep
       ELSE call.arg.bars[i].low * SarScale < ret.val[i - 1].ep

\* C24: on a high/low series of length >= 2 the acceleration factor stays
\* within [initial_af, max_af] on every bar, is raised (by initial_af) only
\* on a bar that sets a new extreme point in the current trend, and is
\* reset to initial_af exactly on the bars where the trend flips; while
\* trending up the stop of the reversal test exceeds neither of the prior
\* two lows and the trend flips exactly when the bar's low is below it
\* (with highs while trending down), the stop on a flip bar being the
\* previous extreme point.
C24_SarStopAndReverse ==
    (call.fn = "parabolic_sar" /\ ret.done /\ Len(call.arg.bars) >= 2) =>
        LET p == call.arg
            n == Len(p.bars)
            low(j) == p.bars[j].low * SarScale
            high(j) == p.bars[j].high * SarScale
        IN  /\ Len(ret.val) = n
            /\ \A i \in 1..n : p.initial_af <= ret.val[i].af /\ ret.val[i].af <= p.max_af
            /\ \A i \in 2..n :
                  LET prev == ret.val[i - 1]
                      cur == ret.val[i]
                      two == IF i >= 3 THEN i - 2 ELSE 1
                  IN  /\ cur.af > prev.af =>
                             NewExtreme(i) /\ cur.af <= prev.af + p.initial_af
                      /\ Flips(i) => cur.af = p.initial_af /\ cur.sar = prev.ep
                      /\ cur.af < prev.af => Flips(i)
                      /\ prev.trend = 1 =>
                             /\ cur.stop <= low(i - 1) /\ cur.stop <= low(two)
                             /\ Flips(i) <=> low(i) < cur.stop
                      /\ prev.trend = -1 =>
                             /\ cur.stop >= high(i - 1) /\ cur.stop >= high(two)
                             /\ Flips(i) <=> high(i) > cur.stop

\* With initial_af 0.1 and max_af 0.16 an uptrend raised the factor to the
\* maximum on its second bar, then flipped on a low below the stop: the
\* factor is back at 0.1 and the stop is the previous extreme point.
C24_Witness ==
    /\ call.fn = "parabolic_sar" /\ ret.done /\ Len(call.arg.bars) = 3
    /\ call.arg.initial_af = 5
    /\ ret.val[1].trend = 1
    /\ ret.val[2].trend = 1 /\ ret.val[2].af = call.arg.max_af
    /\ ret.val[3].trend = -1 /\ ret.val[3].af = 5
    /\ ret.val[3].sar = ret.val[2].ep
    /\ call.arg.bars[3].low * SarScale < ret.val[3].stop

(***************************************************************************)
(* Properties of incremental processing (checked under Spec)               *)
(***************************************************************************)
\* A step of detect_anomalies_incremental for a ticker whose stored
\* metadata is complete.
IncrementalAfterComplete ==
    /\ calls' = calls + 1 /\ last'.op = "incremental"
    /\ meta[last'.ticker].exists /\ meta[last'.ticker].status = "complete"

\* The positions of the records the step inserted.
Inserted == (Len(anomalies) + 1)..Len(anomalies')

\* C25: with complete metadata and last_detected_timestamp T, a run of
\* detect_anomalies_incremental is either skipped (latest bar <= T: no
\* record inserted, metadata unchanged, result already_detected with 0 new
\* anomalies) or inserts records only for bars with a timestamp > T and
\* reports only those as new_anomalies.
C25_OnlyNewData ==
    [][IncrementalAfterComplete =>
          LET t == last'.ticker
              T == meta[t].last_detected_timestamp
          IN  \/ /\ last'.outcome = "already_detected" /\ bars[t] <= T
                 /\ anomalies' = anomalies /\ meta' = meta /\ last'.returned = 0
              \/ /\ last'.outcome # "already_detected"
                 /\ \A i \in Inserted : anomalies'[i].datetime > T
                 /\ last'.returned
                        = Len(SelectSeq(anomaly_rows(t, bars[t]), LAMBDA ts : ts > T))]_vars

\* The last run was complete and one of its records is for a bar that a
\* record of an earlier complete run already covers.
C25_OldBarInsertedAgain ==
    /\ last.op = "incremental" /\ last.outcome = "ok"
    /\ \E i, j \in 1..Len(anomalies) :
          /\ i < j
          /\ anomalies[j].fields = IncrementalFields
          /\ anomalies[j].detection_run_id = last.run_id
          /\ anomalies[i].fields = IncrementalFields
          /\ anomalies[i].detection_run_id # last.run_id
          /\ anomalies[i].detection_run_id # NoRunId
          /\ runs[anomalies[i].detection_run_id].status = "complete"
          /\ anomalies[i].ticker = anomalies[j].ticker
          /\ anomalies[i].datetime = anomalies[j].datetime

\* With complete metadata a run is skipped exactly when it loads bars none
\* of which is later than T, and then changes neither records nor metadata;
\* a run that goes through inserts a record for every flagged bar of the
\* whole series and reports that many.
SkippedOrWholeSeries ==
    [][IncrementalAfterComplete =>
          LET t == last'.ticker
              T == meta[t].last_detected_timestamp
          IN  /\ last'.outcome = "already_detected" <=>
                     (last'.loaded > 0 /\ last'.loaded <= T)
              /\ last'.outcome = "already_detected" =>
                     anomalies' = anomalies /\ meta' = meta /\ last'.returned = 0
              /\ last'.outcome = "ok" =>
                     /\ [i \in 1..(Len(anomalies') - Len(anomalies)) |->
                            anomalies'[Len(anomalies) + i].datetime]
                          = anomaly_rows(t, bars[t])
                     /\ last'.returned = Len(anomaly_rows(t, bars[t]))]_vars

(***************************************************************************)
(* Properties of retraining (checked under SpecTrain)                      *)
(***************************************************************************)
\* The last call was trained_model for market m and the model files are as
\* it left them.
JustTrained(m) ==
    /\ mmret.fn = "trained_model" /\ mmret.market = m
    /\ IF mmret.how = "configured_path"
       THEN files[m].exists /\ files[m].loadable /\ files[m].content = mmret.model
       ELSE files[m] = NoFile /\ models_dir[m].others # {}

\* The step is a get_model for market m.
GetsModel(m) == mmret'.fn = "get_model" /\ UpperMarket(mmret'.market) = m

\* C26: after trained_model has saved a new model for a market, the next
\* get_model for that market returns that model with its version: not a
\* model cached before, and not None because the configured path names a
\* deleted file.
C26_NextGetModelIsNew ==
    [][\A m \in Markets :
          (JustTrained(m) /\ GetsModel(m)) =>
              /\ mmret'.model = mmret.model
              /\ m \in DOMAIN versions' /\ versions'[m] = mmret.text]_vars

\* get_model found no file at the configured path of the US market while
\* the directory holds the newer version trained_model wrote.
C26_NewModelNotFound ==
    /\ mmret.fn = "get_model" /\ UpperMarket(mmret.market) = "US"
    /\ mmret.how = "failed"
    /\ paths["US"] /\ ~files["US"].exists
    /\ models_dir["US"].others # {}
    /\ models_dir["US"].configured \notin models_dir["US"].others

\* After trained_model the next get_model never returns a cached model; it
\* returns the new model exactly when trained_model wrote it at the
\* configured path, and None when it wrote it under another version.
NewModelOnlyAtConfiguredPath ==
    [][\A m \in Markets :
          (JustTrained(m) /\ GetsModel(m)) =>
              /\ mmret'.how # "hit"
              /\ IF mmret.how = "configured_path"
                 THEN /\ mmret'.how = "loaded" /\ mmret'.model = mmret.model
                      /\ versions'[m] = mmret.text
                 ELSE mmret'.how = "failed"]_vars

\* trained_model wrote the first model of a market at the configured path.
FirstModelAtConfiguredPath ==
    mmret.fn = "trained_model" /\ mmret.how = "configured_path"

(***************************************************************************)
(* Properties of the detection-run audit trail (checked under Spec)        *)
(***************************************************************************)
\* Number of anomaly records carrying detection_run_id i.
RunRecords(i) ==
    Cardinality({j \in 1..Len(anomalies) : anomalies[j].detection_run_id = i})

RunsSettled ==
    \A i \in 1..Len(runs) :
        /\ runs[i].status \in {"complete", "failed"}
        /\ runs[i].status = "complete" => runs[i].anomalies_found = RunRecords(i)

RunsKept ==
    /\ Len(runs') \in {Len(runs), Len(runs) + 1}
    /\ \A i \in 1..Len(runs) : runs'[i] = runs[i]

\* C27: once detect_anomalies_incremental has returned, every run it created
\* with start_run has status 'complete' or 'failed'; a run that reached one
\* of the two never changes again; and a 'complete' run reports as
\* anomalies_found the number of anomaly records carrying its
\* detection_run_id.
C27_RunsEndTerminal == []RunsSettled /\ [][RunsKept]_vars

\* Two runs have returned: one 'complete' with at least one record, one
\* 'failed' after insert_many had written part of its documents.
C27_Witness ==
    /\ \E i \in 1..Len(runs) :
          runs[i].status = "complete" /\ runs[i].anomalies_found > 0
    /\ \E i \in 1..Len(runs) :
          runs[i].status = "failed" /\ RunRecords(i) > 0

(***************************************************************************)
(* Properties of concurrent incremental runs (checked under SpecConcurrent)*)
(***************************************************************************)
\* The step writes the detection metadata of ticker t.
MetaWritten(t) == meta'[t] # meta[t]

\* The step is the successful end of a run for ticker t: the run of a thread
\* that had scored its series becomes 'complete'.
SuccessfulEnd(t) ==
    \E th \in ThreadIds :
        /\ starting[th].pc = "save" /\ starting[th].ticker = t
        /\ starting'[th].pc = "idle"
        /\ runs'[starting[th].run_id].status = "complete"

MetaIsComplete == \A t \in Tickers : meta[t].exists => meta[t].status = "complete"

MetaNeverDecreases ==
    \A t \in Tickers :
        meta'[t].last_detected_timestamp >= meta[t].last_detected_timestamp

\* C28: over any interleaving of incremental runs for one ticker,
\* last_detected_timestamp never decreases, the metadata is written only by
\* a run that reaches its successful end, and metadata that exists has
\* status 'complete'.
C28_MetadataOnlyAdvances ==
    /\ []MetaIsComplete
    /\ [][MetaNeverDecreases /\ \A t \in Tickers : MetaWritten(t) => SuccessfulEnd(t)]_vars

\* A run that loaded its series before another run saved a later timestamp
\* is about to save its own, earlier one.
C28_EarlierTimestampToSave ==
    \E th \in ThreadIds :
        /\ starting[th].pc = "save"
        /\ meta[starting[th].ticker].exists
        /\ starting[th].latest < meta[starting[th].ticker].last_detected_timestamp

\* Metadata is written only at the successful end of a run and always with
\* status 'complete', under any interleaving.
MetaWrittenAtSuccessfulEnd ==
    /\ []MetaIsComplete
    /\ [][\A t \in Tickers : MetaWritten(t) => SuccessfulEnd(t)]_vars

\* Runs that follow one another: last_detected_timestamp never decreases
\* (checked under Spec, where a call is one step).
MetaAdvancesInSequence == [][MetaNeverDecreases]_vars

\* The thread has passed get_full_hash: model_version and model_hash are
\* the values its run, its records and the metadata will carry.
HasRecorded(th) == starting[th].pc \in {"load", "save"}

\* C29: the model_version and model_hash an incremental run records are
\* those of the model object it got from get_model and predicts with, even
\* when clear_cache, a change of the model file or another thread's load
\* runs at the same time: never 'unknown' and never another file's hash.
C29_RecordedVersionIsOwnModel ==
    \A th \in ThreadIds :
        HasRecorded(th) =>
            /\ starting[th].hash = Sha256(starting[th].model)
            /\ starting[th].version = SubSeq(Sha256(starting[th].model), 1, VersionLen)
            /\ runs[starting[th].run_id].model_version = starting[th].version

\* A run is about to predict with one model while it recorded 'unknown' as
\* model_version and the full hash of another file as model_hash.
C29_UnknownVersionRecorded ==
    \E th \in ThreadIds :
        /\ starting[th].pc = "save"
        /\ starting[th].version = Unknown
        /\ runs[starting[th].run_id].model_version = Unknown
        /\ starting[th].hash # Unknown
        /\ starting[th].hash # Sha256(starting[th].model)

\* What a run records is what ModelManager holds when it asks: the version
\* get_version returns is 'unknown' or the version of some model file.
RecordedVersionIsOfSomeFile ==
    \A th \in ThreadIds :
        HasRecorded(th) =>
            /\ starting[th].version \in
                  {Unknown} \cup {SubSeq(Sha256(c), 1, VersionLen) : c \in Contents}
            /\ starting[th].hash \in {Unknown} \cup {Sha256(c) : c \in Contents}

(***************************************************************************)
(* Properties of tables holding several symbols (checked under SpecPure)   *)
(***************************************************************************)
SymbolCellsDone == call.fn = "symbol_cells" /\ ret.done

CrossFlagsAsAlone ==
    SymbolCellsDone =>
        \A s \in TableSymbols :
            LET together == symbol_rows(ret.val, s)
                alone == symbol_cells(symbol_rows(call.arg, s))
            IN  /\ \A i \in 1..Len(together) :
                      together[i].EMA_Cross_Up = alone[i].EMA_Cross_Up
                /\ (call.arg[1].Ticker = s /\ Len(together) > 1) => together = alone

\* A symbol that follows another in the table has a bar flagged as an
\* EMA cross up.
CrossUpInSecondSymbol ==
    /\ SymbolCellsDone
    /\ \E i \in 2..Len(ret.val) :
          ret.val[i].EMA_Cross_Up /\ ret.val[i].Ticker # ret.val[1].Ticker

====
